---------------------------- MODULE Spec2Model ----------------------------
(***************************************************************************)
(* A model of the subtitle matching addon (stremio-github-subtitles).      *)
(*                                                                         *)
(* The matching engine (class FuzzyMatcher of services/movie-database.js)  *)
(* is a library of pure functions over JavaScript strings.  A JavaScript   *)
(* string is modelled by a TLA+ string, one character per UTF-16 code      *)
(* unit; every input the specifications below draw is ASCII.  A score is   *)
(* a JavaScript number; the model keeps it as an exact integer count of    *)
(* 1/ScoreUnit (see the score arithmetic section).                         *)
(*                                                                         *)
(* Each group of functions has a specification of its own, whose Init      *)
(* draws the arguments from a bounded set and whose actions apply the      *)
(* functions as the code does:                                             *)
(*   SpecNorm     normalizeText, applied once and again to its own result  *)
(*   SpecSim      calculateSimilarity of two texts, in both orders          *)
(*   SpecImdb     matchesImdbId of a filename and an identifier             *)
(*   SpecEpisode  matchesEpisode of a filename, a season and an episode     *)
(*   SpecYear     extractYear of a filename                                 *)
(*   SpecRank     findBestMatches of a list of files and a request          *)
(*   SpecSort     matches.sort of findBestMatches, in every input order     *)
(*   SpecMovie    the loop of findBestMatches over the files, for movies    *)
(*   SpecSeries   the same loop for an episode of a series                  *)
(*   SpecHandler  the subtitles handler of the addon: listing, metadata     *)
(*                lookup with its cache, ranking, reply                     *)
(*   SpecLookup   getMovieInfo called by overlapping requests, addMovie     *)
(*                and clearCache                                            *)
(*   SpecFetch    fetchGitHubFiles on a finite directory tree                *)
(***************************************************************************)
EXTENDS Integers, Sequences, FiniteSets, TLC

VARIABLES
    pc,         \* the position of the run: which call has returned
    \* SpecNorm
    text,       \* normalizeText: the argument
    norm1,      \* normalizeText(text)
    norm2,      \* normalizeText(norm1)
    \* SpecSim
    first,       \* calculateSimilarity: the arguments
    second,
    sim12,      \* calculateSimilarity(first, second)
    sim21,      \* calculateSimilarity(second, first)
    simCase,    \* the return statement calculateSimilarity(first, second) took
    subMetrics, \* the five metrics it combined, when it took the last one
    \* SpecImdb and SpecEpisode
    filename,   \* the name of a subtitle file
    imdbId,     \* matchesImdbId: the identifier of the request
    season,     \* matchesEpisode: the season and the episode of the request
    episode,
    result,     \* what the matcher returned for the file
    \* SpecRank
    candidates,  \* findBestMatches: the names of the files, in their order
    contentType, \* its arguments type, id, targetTitle, targetYear, minScore
    contentId,
    metaTitle,
    metaYear,
    minimum,
    finals,     \* the final result of each file, as the loop logs it
    ranked,     \* the array findBestMatches returned
    alone,      \* the final result of each file when it is the only file
    \* SpecHandler
    movieCache, \* the module-level Map of getMovieInfo: id -> movieInfo or null
    omdb,       \* what the metadata provider answers at present
    request,    \* the args of the request being handled
    stage,      \* where its handler is: the await it is suspended at
    fetched,    \* what GitHub answered to the listing of this request
    lookup,     \* what getMovieInfo did and returned for this request
    reply,      \* what the promise of the handler settled to
    coldReplies \* what a process that handled no request before could reply

normVars == <<text, norm1, norm2>>
simVars  == <<first, second, sim12, sim21, simCase, subMetrics>>
fileVars == <<filename, imdbId, season, episode, result>>
rankVars == <<candidates, contentType, contentId, metaTitle, metaYear, minimum,
              finals, ranked, alone>>
handlerVars == <<movieCache, omdb, request, stage, fetched, lookup, reply,
                 coldReplies>>
vars == <<pc, normVars, simVars, fileVars, rankVars, handlerVars>>

\* the variables of a specification that does not use them
IdleNorm == text = "" /\ norm1 = "" /\ norm2 = ""
IdleSim  == /\ first = "" /\ second = "" /\ sim12 = 0 /\ sim21 = 0
            /\ simCase = "" /\ subMetrics = <<>>
IdleFile == /\ filename = "" /\ imdbId = "" /\ season = 0 /\ episode = 0
            /\ result = <<>>
IdleRank == /\ candidates = <<>> /\ contentType = "" /\ contentId = ""
            /\ metaTitle = "" /\ metaYear = "" /\ minimum = 0
            /\ finals = <<>> /\ ranked = <<>> /\ alone = <<>>
IdleHandler == /\ movieCache = <<>> /\ omdb = "" /\ request = <<>>
               /\ stage = "" /\ fetched = <<>> /\ lookup = <<>>
               /\ reply = <<>> /\ coldReplies = {}

(***************************************************************************)
(* Characters and strings.                                                 *)
(***************************************************************************)
Digits == {"0", "1", "2", "3", "4", "5", "6", "7", "8", "9"}

LowerLetters ==
    {"a", "b", "c", "d", "e", "f", "g", "h", "i", "j", "k", "l", "m",
     "n", "o", "p", "q", "r", "s", "t", "u", "v", "w", "x", "y", "z"}

\* String.prototype.toLowerCase on one ASCII character
lowerOf ==
    [A |-> "a", B |-> "b", C |-> "c", D |-> "d", E |-> "e", F |-> "f",
     G |-> "g", H |-> "h", I |-> "i", J |-> "j", K |-> "k", L |-> "l",
     M |-> "m", N |-> "n", O |-> "o", P |-> "p", Q |-> "q", R |-> "r",
     S |-> "s", T |-> "t", U |-> "u", V |-> "v", W |-> "w", X |-> "x",
     Y |-> "y", Z |-> "z"]

UpperLetters == DOMAIN lowerOf

\* the regular expression classes \w, \s and . (JavaScript, no u flag)
WordChars == LowerLetters \cup UpperLetters \cup Digits \cup {"_"}
WhiteSpace == {" ", "\t", "\n", "\r"}
LineTerminators == {"\n", "\r"}

\* the i-th character of s, 1-based ("" outside the string)
Ch(s, i) == IF i >= 1 /\ i <= Len(s) THEN SubSeq(s, i, i) ELSE ""

\* s.substring(from) and s.substring(from, to), 0-based as in JavaScript
Substring(s, from, to) ==
    LET a == IF from < 0 THEN 0 ELSE IF from > Len(s) THEN Len(s) ELSE from
        b == IF to < 0 THEN 0 ELSE IF to > Len(s) THEN Len(s) ELSE to
    IN  IF a <= b THEN SubSeq(s, a + 1, b) ELSE SubSeq(s, b + 1, a)

RECURSIVE MapChars(_, _, _)
\* s with every character c replaced by f[c] where f is defined
MapChars(f, s, i) ==
    IF i > Len(s) THEN ""
    ELSE LET c == Ch(s, i)
         IN  (IF c \in DOMAIN f THEN f[c] ELSE c) \o MapChars(f, s, i + 1)

toLowerCase(s) == MapChars(lowerOf, s, 1)

\* s.includes(t), and s.indexOf(t) (0-based, -1 when absent)
includes(s, t) ==
    \E i \in 0..(Len(s) - Len(t)) : SubSeq(s, i + 1, i + Len(t)) = t

indexOf(s, t) ==
    IF includes(s, t)
    THEN CHOOSE i \in 0..(Len(s) - Len(t)) :
            /\ SubSeq(s, i + 1, i + Len(t)) = t
            /\ \A j \in 0..(i - 1) : SubSeq(s, j + 1, j + Len(t)) # t
    ELSE -1

RECURSIVE splitFrom(_, _, _, _)
\* s.split(sep) for a one-character separator: the pieces from position i on,
\* cur being the piece read so far
splitFrom(s, sep, i, cur) ==
    IF i > Len(s) THEN <<cur>>
    ELSE IF Ch(s, i) = sep THEN <<cur>> \o splitFrom(s, sep, i + 1, "")
    ELSE splitFrom(s, sep, i + 1, cur \o Ch(s, i))

split(s, sep) == splitFrom(s, sep, 1, "")

RECURSIVE join(_, _)
\* words.join(sep)
join(words, sep) ==
    IF words = <<>> THEN ""
    ELSE IF Len(words) = 1 THEN words[1]
    ELSE words[1] \o sep \o join(Tail(words), sep)

\* String.prototype.trim
trim(s) ==
    IF \A i \in 1..Len(s) : Ch(s, i) \in WhiteSpace THEN ""
    ELSE LET a == CHOOSE i \in 1..Len(s) :
                    /\ Ch(s, i) \notin WhiteSpace
                    /\ \A j \in 1..(i - 1) : Ch(s, j) \in WhiteSpace
             b == CHOOSE i \in 1..Len(s) :
                    /\ Ch(s, i) \notin WhiteSpace
                    /\ \A j \in (i + 1)..Len(s) : Ch(s, j) \in WhiteSpace
         IN  SubSeq(s, a, b)

\* the set of the elements of a sequence
Range(q) == {q[i] : i \in DOMAIN q}

\* the element of a one-element set: The({e(x) : x \in {v}}) is e(v), with v
\* computed once and named x, as a const declaration of the code does
The(S) == CHOOSE v \in S : TRUE

(***************************************************************************)
(* Regular expressions, as the JavaScript engine matches them.  A pattern  *)
(* is a tree; Ends(r, s, i, ci) is the list of the positions at which a    *)
(* match of r that starts after the first i characters of s can end, in    *)
(* the order in which backtracking tries them, so that its head is the     *)
(* match JavaScript reports.  ci is the i flag; the literals of a pattern  *)
(* matched with ci are written in lower case.                              *)
(***************************************************************************)
RLit(str)       == <<"lit", str>>        \* the characters of str
RSet(S)         == <<"set", S>>          \* [...]: one character of S
RNot(S)         == <<"not", S>>          \* [^...]: one character not in S
RAny            == <<"any">>             \* .
RCat(items)     == <<"cat", items>>      \* r1 r2 ...
RAlt(items)     == <<"alt", items>>      \* r1|r2|...
RStar(r)        == <<"star", r>>         \* r*   (greedy)
RLazy(r)        == <<"lazy", r>>         \* r*?
RRep(r, lo, hi) == <<"rep", r, lo, hi>>  \* r{lo,hi} (greedy)
RPlus(r)        == <<"cat", <<r, <<"star", r>>>>>>      \* r+
ROpt(r)         == <<"rep", r, 0, 1>>    \* r?
RWb             == <<"wb">>              \* \b
RBegin          == <<"begin">>           \* ^
REnd            == <<"end">>             \* $
\* \b(w1|w2|...)\b for alternatives made of word characters only: it can
\* only match a whole maximal run of word characters
RWords(S)       == <<"words", S>>

\* \b holds between the i-th and the (i+1)-th character of s
Boundary(s, i) == (Ch(s, i) \in WordChars) # (Ch(s, i + 1) \in WordChars)

RECURSIVE RunEnd(_, _)
\* the end of the run of word characters that continues after position i
RunEnd(s, i) == IF Ch(s, i + 1) \in WordChars THEN RunEnd(s, i + 1) ELSE i

RECURSIVE Ends(_, _, _, _), EndsAll(_, _, _, _), EndsCat(_, _, _, _, _)
RECURSIVE EndsAlt(_, _, _, _, _)

\* the ends of r started at each of the positions of the list starts
EndsAll(r, s, starts, ci) ==
    IF starts = <<>> THEN <<>>
    ELSE Ends(r, s, Head(starts), ci) \o EndsAll(r, s, Tail(starts), ci)

EndsCat(items, k, s, starts, ci) ==
    IF k > Len(items) \/ starts = <<>> THEN starts
    ELSE EndsCat(items, k + 1, s, EndsAll(items[k], s, starts, ci), ci)

EndsAlt(items, k, s, i, ci) ==
    IF k > Len(items) THEN <<>>
    ELSE Ends(items[k], s, i, ci) \o EndsAlt(items, k + 1, s, i, ci)

Ends(r, s, i, ci) ==
    LET \* one more repetition of the body of a quantifier; an empty one is
        \* not repeated
        more == SelectSeq(Ends(r[2], s, i, ci), LAMBDA e : e > i)
    IN
    CASE r[1] = "lit" ->
            IF i + Len(r[2]) <= Len(s)
               /\ (IF ci THEN toLowerCase(SubSeq(s, i + 1, i + Len(r[2])))
                         ELSE SubSeq(s, i + 1, i + Len(r[2]))) = r[2]
            THEN <<i + Len(r[2])>> ELSE <<>>
      [] r[1] = "set" -> IF Ch(s, i + 1) \in r[2] THEN <<i + 1>> ELSE <<>>
      [] r[1] = "not" ->
            IF i < Len(s) /\ Ch(s, i + 1) \notin r[2] THEN <<i + 1>> ELSE <<>>
      [] r[1] = "any" ->
            IF i < Len(s) /\ Ch(s, i + 1) \notin LineTerminators
            THEN <<i + 1>> ELSE <<>>
      [] r[1] = "cat" -> EndsCat(r[2], 1, s, <<i>>, ci)
      [] r[1] = "alt" -> EndsAlt(r[2], 1, s, i, ci)
      [] r[1] = "star" -> EndsAll(r, s, more, ci) \o <<i>>
      [] r[1] = "lazy" -> <<i>> \o EndsAll(r, s, more, ci)
      [] r[1] = "rep" ->
            (IF r[4] > 0
             THEN EndsAll(<<"rep", r[2], IF r[3] > 0 THEN r[3] - 1 ELSE 0,
                            r[4] - 1>>, s, more, ci)
             ELSE <<>>)
            \o (IF r[3] = 0 THEN <<i>> ELSE <<>>)
      [] r[1] = "wb" -> IF Boundary(s, i) THEN <<i>> ELSE <<>>
      [] r[1] = "begin" -> IF i = 0 THEN <<i>> ELSE <<>>
      [] r[1] = "end" -> IF i = Len(s) THEN <<i>> ELSE <<>>
      [] r[1] = "words" ->
            IF RunEnd(s, i) > i /\ Ch(s, i) \notin WordChars
               /\ (IF ci THEN toLowerCase(SubSeq(s, i + 1, RunEnd(s, i)))
                         ELSE SubSeq(s, i + 1, RunEnd(s, i))) \in r[2]
            THEN <<RunEnd(s, i)>> ELSE <<>>

\* regex.test(s)
Test(r, s, ci) == \E i \in 0..Len(s) : Ends(r, s, i, ci) # <<>>

\* the first match of r in s at or after position from, as <<start, end>>;
\* <<-1, -1>> when there is none
RECURSIVE MatchFrom(_, _, _, _)
MatchFrom(r, s, from, ci) ==
    IF from > Len(s) THEN <<-1, -1>>
    ELSE IF Ends(r, s, from, ci) # <<>>
    THEN <<from, Head(Ends(r, s, from, ci))>>
    ELSE MatchFrom(r, s, from + 1, ci)

RECURSIVE MatchAllFrom(_, _, _, _)
\* s.match(r) for a g regular expression: the matched substrings in order
\* (the empty list where JavaScript returns null)
MatchAllFrom(r, s, from, ci) ==
    LET m == MatchFrom(r, s, from, ci)
    IN  IF m[1] < 0 THEN <<>>
        ELSE <<SubSeq(s, m[1] + 1, m[2])>>
             \o MatchAllFrom(r, s, IF m[2] > m[1] THEN m[2] ELSE m[1] + 1, ci)

MatchAll(r, s, ci) == MatchAllFrom(r, s, 0, ci)

RECURSIVE ReplaceFrom(_, _, _, _, _)
\* s.replace(r, by) for a g regular expression, from position from on (for a
\* regular expression without g that can only match once, such as one that
\* ends in $, this is the same)
ReplaceFrom(r, s, from, by, ci) ==
    LET m == MatchFrom(r, s, from, ci)
    IN  IF m[1] < 0 THEN SubSeq(s, from + 1, Len(s))
        ELSE SubSeq(s, from + 1, m[1]) \o by
             \o (IF m[2] > m[1] THEN ReplaceFrom(r, s, m[2], by, ci)
                 ELSE Ch(s, m[1] + 1) \o ReplaceFrom(r, s, m[1] + 1, by, ci))

ReplaceAll(r, s, by, ci) == ReplaceFrom(r, s, 0, by, ci)

\* s.replace(r, by) for a regular expression without the g flag
ReplaceFirst(r, s, by, ci) ==
    LET m == MatchFrom(r, s, 0, ci)
    IN  IF m[1] < 0 THEN s
        ELSE SubSeq(s, 1, m[1]) \o by \o SubSeq(s, m[2] + 1, Len(s))

(***************************************************************************)
(* FuzzyMatcher: the tables of the constructor.                            *)
(***************************************************************************)
stopWords ==
    {"the", "a", "an", "and", "or", "but", "in", "on", "at", "to", "for",
     "of", "with", "by", "is", "are", "was", "were", "this", "that", "these",
     "those", "be", "been", "being", "have", "has", "had", "do", "does",
     "did", "will", "would", "could", "should", "may", "might", "must",
     "can", "shall", "de", "la", "le", "el", "les", "los", "las", "un",
     "une", "der", "die", "das", "ein", "eine", "il", "lo", "gli", "i"}

\* /\b(w1|...|wn)\b/ with, among the words, alternatives that hold other
\* characters: the alternatives are tried in the order of the source
Bounded(alternatives) == RCat(<<RWb, RAlt(alternatives), RWb>>)

\* the patterns normalizeText removes, each with its i flag; all carry g
releasePatterns == <<
    [re |-> RWords({"yify", "rarbg", "etrg", "ettv", "x264", "h264", "h265",
                    "hevc", "xvid", "divx", "ac3", "dts", "bluray", "brrip",
                    "webrip", "hdtv", "dvdrip", "720p", "1080p", "2160p",
                    "4k", "uhd"}),
     ci |-> TRUE],
    [re |-> Bounded(<<
                RWords({"internal", "proper", "repack", "dubbed", "subbed",
                        "unrated", "extended"}),
                \* directors?.cut
                RCat(<<RLit("director"), ROpt(RLit("s")), RAny, RLit("cut")>>),
                RWords({"theatrical", "imax", "limited", "festival",
                        "screener", "cam", "ts", "tc"})>>),
     ci |-> TRUE],
    [re |-> Bounded(<<
                RWords({"aac", "mp3", "flac"}),
                RLit("dts-hd"),
                RWords({"truehd", "atmos", "dolby", "surround"}),
                RLit("5.1"),
                RLit("7.1")>>),
     ci |-> TRUE],
    [re |-> Bounded(<<
                RWords({"multi", "dual", "audio", "subs", "sub"}),
                \* hard\.?coded
                RCat(<<RLit("hard"), ROpt(RLit(".")), RLit("coded")>>),
                RWords({"hc", "forced"})>>),
     ci |-> TRUE],
    \* \[.*?\] and \{.*?\}
    [re |-> RCat(<<RLit("["), RLazy(RAny), RLit("]")>>), ci |-> FALSE],
    [re |-> RCat(<<RLit("{"), RLazy(RAny), RLit("}")>>), ci |-> FALSE],
    \* \(.*?(720p|...|year|\d{4}).*?\)
    [re |-> RCat(<<RLit("("), RLazy(RAny),
                   RAlt(<<RLit("720p"), RLit("1080p"), RLit("2160p"),
                          RLit("4k"), RLit("x264"), RLit("h264"),
                          RLit("h265"), RLit("bluray"), RLit("webrip"),
                          RLit("hdtv"), RLit("dvdrip"), RLit("year"),
                          RRep(RSet(Digits), 4, 4)>>),
                   RLazy(RAny), RLit(")")>>),
     ci |-> TRUE],
    \* -\w+$
    [re |-> RCat(<<RLit("-"), RPlus(RSet(WordChars)), REnd>>), ci |-> FALSE],
    \* \.(mkv|mp4|avi|mov|wmv|flv|webm|m4v)$
    [re |-> RCat(<<RLit("."),
                   RAlt(<<RLit("mkv"), RLit("mp4"), RLit("avi"), RLit("mov"),
                          RLit("wmv"), RLit("flv"), RLit("webm"),
                          RLit("m4v")>>),
                   REnd>>),
     ci |-> TRUE] >>

\* abbreviation and expansion, in the order of Object.entries
abbreviations == <<
    <<"vs", "versus">>, <<"pt", "part">>, <<"vol", "volume">>,
    <<"ep", "episode">>, <<"ch", "chapter">>, <<"no", "number">>,
    <<"nr", "number">>, <<"num", "number">>, <<"&", "and">>,
    <<"w/", "with">>, <<"wo/", "without">> >>

\* charMap (lines 162-168) folds accented letters, none of them ASCII: the
\* loop of normalizeText over it (lines 178-180) changes no string of this
\* model, whose characters are all ASCII, and has no counterpart here.

(***************************************************************************)
(* FuzzyMatcher.normalizeText                                              *)
(***************************************************************************)
RECURSIVE expandAbbreviations(_, _)
\* for (const [abbrev, expansion] of entries):
\*     text = text.replace(/\b<abbrev>\b/gi, expansion)
\* (no replace changes the empty string)
expandAbbreviations(s, entries) ==
    IF entries = <<>> \/ s = "" THEN s
    ELSE LET replaced ==
                ReplaceAll(RCat(<<RWb, RLit(Head(entries)[1]), RWb>>), s,
                           Head(entries)[2], TRUE)
         IN  IF replaced = "" THEN ""
             ELSE expandAbbreviations(replaced, Tail(entries))

RECURSIVE removeReleasePatterns(_, _)
\* for (const pattern of patterns): text = text.replace(pattern, ' ')
removeReleasePatterns(s, patterns) ==
    IF patterns = <<>> \/ s = "" THEN s
    ELSE LET replaced ==
                ReplaceAll(Head(patterns).re, s, " ", Head(patterns).ci)
         IN  IF replaced = "" THEN ""
             ELSE removeReleasePatterns(replaced, Tail(patterns))

romanToNum ==
    [i |-> "1", ii |-> "2", iii |-> "3", iv |-> "4", v |-> "5", vi |-> "6",
     vii |-> "7", viii |-> "8", ix |-> "9", x |-> "10"]

\* /\b(?:part\s+)?([ivx]+)\b/g
romanPattern ==
    RCat(<<RWb, ROpt(RCat(<<RLit("part"), RPlus(RSet(WhiteSpace))>>)),
           RPlus(RSet({"i", "v", "x"})), RWb>>)

RECURSIVE LastRun(_, _)
\* the group ([ivx]+) of a match of romanPattern: the characters after the
\* white space that follows "part", or the whole match
LastRun(m, i) ==
    IF i = 0 \/ Ch(m, i) \in WhiteSpace THEN SubSeq(m, i + 1, Len(m))
    ELSE LastRun(m, i - 1)

RECURSIVE replaceRoman(_, _)
\* the replace of the Roman numerals, from position from on: the number of
\* the table, or the match itself when the table has none
replaceRoman(s, from) ==
    LET m     == MatchFrom(romanPattern, s, from, FALSE)
        match == SubSeq(s, m[1] + 1, m[2])
        roman == LastRun(match, Len(match))
    IN  IF m[1] < 0 THEN SubSeq(s, from + 1, Len(s))
        ELSE SubSeq(s, from + 1, m[1])
             \o (IF roman \in DOMAIN romanToNum THEN romanToNum[roman]
                 ELSE match)
             \o replaceRoman(s, m[2])

\* .replace(/['']/g, '').replace(/[^\w\s]/g, ' ').replace(/\s+/g, ' ').trim()
removeSpecial(s) ==
    The({trim(collapsed) :
        collapsed \in {ReplaceAll(RPlus(RSet(WhiteSpace)), spaced, " ", FALSE) :
        spaced \in {ReplaceAll(RNot(WordChars \cup WhiteSpace), noApostrophes,
                               " ", FALSE) :
        noApostrophes \in {ReplaceAll(RSet({"'"}), s, "", FALSE)}}}})

\* the words that are kept: not empty and not a stop word
keptWords(s) ==
    SelectSeq(split(s, " "), LAMBDA word : Len(word) > 0 /\ word \notin stopWords)

\* the steps of normalizeText in the order of the code, innermost first
normalizeText(t) ==
    IF t = "" THEN ""
    ELSE The({join(keptWords(cleaned), " ") :
        cleaned  \in {removeSpecial(numbered) :
        numbered \in {replaceRoman(released, 0) :
        released \in {removeReleasePatterns(expanded, releasePatterns) :
        expanded \in {expandAbbreviations(lowered, abbreviations) :
        lowered  \in {toLowerCase(t)}}}}}})

(***************************************************************************)
(* The texts SpecSim compares.                                              *)
(***************************************************************************)
\* the most words of a text SpecSim draws
MaxSimWords == 2

\* the words of the texts of SpecSim: a stop word, words one letter apart
\* and words that share a phonetic code
SimWords == {"the", "star", "stir", "stor", "war"}

RECURSIVE TextsUpTo(_, _)
\* the texts of at most n of the words, separated by single spaces
TextsUpTo(words, n) ==
    IF n = 0 THEN {""}
    ELSE LET shorter == TextsUpTo(words, n - 1)
         IN  shorter \cup {IF t = "" THEN w ELSE t \o " " \o w :
                             t \in shorter, w \in words}

SimTexts == TextsUpTo(SimWords, MaxSimWords)

(***************************************************************************)
(* Score arithmetic.  A score is a JavaScript number in [0, 1]; the model  *)
(* keeps it as a whole number of 1/ScoreUnit.  ScoreUnit is divisible by   *)
(* 100 and by every count up to 16, so that the quotients of two counts    *)
(* and the products with the code's two-decimal weights are exact for the  *)
(* short strings of the specifications; any other quotient is rounded down *)
(* (by less than 2 / 10^8).                                                *)
(***************************************************************************)
ScoreUnit == 720720 * 100

\* the decimal literal h/100 of the code (0.85 is Hundredths(85))
Hundredths(h) == h * (ScoreUnit \div 100)

\* count / total for two counts with count <= total
Ratio(count, total) ==
    count * (ScoreUnit \div total) + (count * (ScoreUnit % total)) \div total

\* score * (h/100)
Times(score, h) == (score \div 100) * h + ((score % 100) * h) \div 100

Min(a, b) == IF a < b THEN a ELSE b
Max(a, b) == IF a > b THEN a ELSE b

(***************************************************************************)
(* FuzzyMatcher: the similarity metrics.                                   *)
(***************************************************************************)
RECURSIVE levenshteinRow(_, _, _, _, _)
\* one row of the edit distance table: cur holds the columns 0..j-1 of the
\* row of character ca, prev is the row above
levenshteinRow(prev, ca, b, j, cur) ==
    IF j > Len(b) THEN cur
    ELSE LET cell == Min(Min(prev[j + 1] + 1, cur[j] + 1),
                         prev[j] + (IF ca = Ch(b, j) THEN 0 ELSE 1))
         IN  IF cell >= 0
             THEN levenshteinRow(prev, ca, b, j + 1, Append(cur, cell))
             ELSE cur

RECURSIVE levenshteinRows(_, _, _, _)
levenshteinRows(a, b, i, prev) ==
    IF i > Len(a) THEN prev[Len(b) + 1]
    ELSE LET row == levenshteinRow(prev, Ch(a, i), b, 1, <<i>>)
         IN  IF Len(row) > 0 THEN levenshteinRows(a, b, i + 1, row)
             ELSE 0

\* distance(a, b) of the package fastest-levenshtein
distance(a, b) == levenshteinRows(a, b, 1, [j \in 1..(Len(b) + 1) |-> j - 1])

\* calculateLevenshteinSimilarity dividing by the shorter length
levenshteinOverShorter(str1, str2) ==
    LET minLen == Min(Len(str1), Len(str2))
    IN  IF minLen = 0 THEN ScoreUnit
        ELSE ScoreUnit - Ratio(distance(str1, str2), minLen)

calculateLevenshteinSimilarity(str1, str2) ==
    LET maxLen == Max(Len(str1), Len(str2))
    IN  IF maxLen = 0 THEN ScoreUnit
        ELSE ScoreUnit - Ratio(distance(str1, str2), maxLen)

\* new Set(str.split(''))
CharSet(str) == {Ch(str, i) : i \in 1..Len(str)}

calculateJaccardSimilarity(str1, str2) ==
    LET set1 == CharSet(str1)
        set2 == CharSet(str2)
    IN  IF set1 \cup set2 = {} THEN 0
        ELSE Ratio(Cardinality(set1 \cap set2), Cardinality(set1 \cup set2))

RECURSIVE collapseRepeats(_, _)
\* code.replace(/(.)\1+/g, '$1'), from the i-th character on
collapseRepeats(s, i) ==
    IF i > Len(s) THEN ""
    ELSE IF i > 1 /\ Ch(s, i) = Ch(s, i - 1)
              /\ Ch(s, i) \notin LineTerminators
    THEN collapseRepeats(s, i + 1)
    ELSE Ch(s, i) \o collapseRepeats(s, i + 1)

\* the replacements of generatePhoneticCode, in the order of Object.entries
phoneticMap == <<
    <<"ph", "f">>, <<"gh", "f">>, <<"ck", "k">>, <<"qu", "k">>,
    <<"x", "ks">>, <<"th", "t">>, <<"sh", "s">>, <<"ch", "s">>,
    <<"wh", "w">> >>

RECURSIVE applyPhoneticMap(_, _)
applyPhoneticMap(code, k) ==
    IF k > Len(phoneticMap) THEN code
    ELSE LET replaced == ReplaceAll(RLit(phoneticMap[k][1]), code,
                                    phoneticMap[k][2], FALSE)
         IN  IF replaced = "" THEN ""
             ELSE applyPhoneticMap(replaced, k + 1)

generatePhoneticCode(word) ==
    The({IF code = "" THEN ""
         ELSE Ch(code, 1) \o ReplaceAll(RSet({"a", "e", "i", "o", "u"}),
                                        SubSeq(code, 2, Len(code)), "", FALSE) :
        code      \in {applyPhoneticMap(collapsed, 1) :
        collapsed \in {collapseRepeats(lowered, 1) :
        lowered   \in {toLowerCase(word)}}}})

\* the number of the words of words1 whose code is the code of a word of
\* words2
phoneticMatches(words1, words2) ==
    Cardinality({i \in DOMAIN words1 :
        \E code1 \in {generatePhoneticCode(words1[i])} :
            /\ Len(code1) > 0
            /\ \E j \in DOMAIN words2 : code1 = generatePhoneticCode(words2[j])})

calculatePhoneticSimilarity(str1, str2) ==
    LET words1 == split(str1, " ")
        words2 == split(str2, " ")
        total  == Max(Len(words1), Len(words2))
    IN  IF total = 0 THEN 0
        ELSE Ratio(phoneticMatches(words1, words2), total)

RECURSIVE generateNGramsFrom(_, _, _)
generateNGramsFrom(paddedStr, n, i) ==
    IF i > Len(paddedStr) - n THEN <<>>
    ELSE <<SubSeq(paddedStr, i + 1, i + n)>>
         \o generateNGramsFrom(paddedStr, n, i + 1)

RECURSIVE repeat(_, _)
\* str.repeat(count)
repeat(str, count) == IF count <= 0 THEN "" ELSE str \o repeat(str, count - 1)

generateNGrams(str, n) ==
    generateNGramsFrom(repeat(" ", n - 1) \o str \o repeat(" ", n - 1), n, 0)

calculateNGramSimilarity(str1, str2, n) ==
    LET ngrams1 == generateNGrams(str1, n)
        ngrams2 == generateNGrams(str2, n)
        set1 == Range(ngrams1)
        set2 == Range(ngrams2)
    IN  IF Len(ngrams1) = 0 /\ Len(ngrams2) = 0 THEN ScoreUnit
        ELSE IF Len(ngrams1) = 0 \/ Len(ngrams2) = 0 THEN 0
        ELSE Ratio(Cardinality(set1 \cap set2), Cardinality(set1 \cup set2))

RECURSIVE bestPartial(_, _, _, _, _, _)
\* the inner loop of calculateWordSimilarity over words2 from the j-th on:
\* <<bestMatch, bestWord>>, an empty bestWord being the null of the code
\* (which tests it with if (bestWord))
bestPartial(word1, words2, j, skipped, bestMatch, bestWord) ==
    IF j > Len(words2) THEN <<bestMatch, bestWord>>
    ELSE LET word2 == words2[j]
             lengthRatio == Ratio(Min(Len(word1), Len(word2)),
                                  Max(Len(word1), Len(word2)))
             similarity == calculateLevenshteinSimilarity(word1, word2)
         IN  IF word2 \in skipped THEN
                 bestPartial(word1, words2, j + 1, skipped, bestMatch, bestWord)
             ELSE IF lengthRatio < Hundredths(50) THEN
                 bestPartial(word1, words2, j + 1, skipped, bestMatch, bestWord)
             ELSE IF similarity > bestMatch /\ similarity > Hundredths(70) THEN
                 bestPartial(word1, words2, j + 1, skipped, similarity, word2)
             ELSE
                 bestPartial(word1, words2, j + 1, skipped, bestMatch, bestWord)

RECURSIVE partialMatchSum(_, _, _, _, _)
\* the outer loop of calculateWordSimilarity over words1 from the i-th on:
\* the sum partialMatches, used2 being the words of words2 already paired
partialMatchSum(words1, words2, i, exactMatches, used2) ==
    IF i > Len(words1) THEN 0
    ELSE IF words1[i] \in exactMatches THEN
        partialMatchSum(words1, words2, i + 1, exactMatches, used2)
    ELSE LET best == bestPartial(words1[i], words2, 1,
                                 exactMatches \cup used2, 0, "")
         IN  IF best[2] # ""
             THEN best[1] + partialMatchSum(words1, words2, i + 1,
                                            exactMatches, used2 \cup {best[2]})
             ELSE partialMatchSum(words1, words2, i + 1, exactMatches, used2)

calculateWordSimilarity(words1, words2) ==
    LET exactMatches   == Range(words1) \cap Range(words2)
        partialMatches == partialMatchSum(words1, words2, 1, exactMatches, {})
        totalWords     == Max(Len(words1), Len(words2))
        exactScore     == Ratio(Cardinality(exactMatches), totalWords)
        partialScore   == partialMatches \div totalWords
    IN  IF Len(words1) = 0 /\ Len(words2) = 0 THEN ScoreUnit
        ELSE IF Len(words1) = 0 \/ Len(words2) = 0 THEN 0
        ELSE exactScore + Times(partialScore, 70)

\* the weights of calculateSimilarity, in hundredths
weights == [levenshtein |-> 25, jaccard |-> 20, phonetic |-> 15,
            word |-> 25, ngram |-> 15]

\* the five metrics of two normalized strings
metrics(n1, n2) ==
    [levenshtein |-> calculateLevenshteinSimilarity(n1, n2),
     jaccard     |-> calculateJaccardSimilarity(n1, n2),
     phonetic    |-> calculatePhoneticSimilarity(n1, n2),
     word        |-> calculateWordSimilarity(split(n1, " "),
                                             split(n2, " ")),
     ngram       |-> calculateNGramSimilarity(n1, n2, 2)]

weightedSum(m) ==
    Times(m.levenshtein, weights.levenshtein)
    + Times(m.jaccard, weights.jaccard)
    + Times(m.phonetic, weights.phonetic)
    + Times(m.word, weights.word)
    + Times(m.ngram, weights.ngram)

\* which return statement of calculateSimilarity the arguments s1, s2 reach,
\* n1 and n2 being their normalized texts
returnOf(s1, s2, n1, n2) ==
    IF s1 = "" \/ s2 = "" THEN "empty_argument"
    ELSE IF n1 = n2 THEN "identical"
    ELSE IF Len(n1) = 0 \/ Len(n2) = 0 THEN "empty_normalized"
    ELSE IF includes(n1, n2) \/ includes(n2, n1) THEN "substring"
    ELSE "weighted"

\* the value calculateSimilarity returns at that statement
similarityOf(n1, n2, case) ==
    LET longer  == IF Len(n1) > Len(n2) THEN n1 ELSE n2
        shorter == IF Len(n1) <= Len(n2) THEN n1 ELSE n2
    IN  CASE case = "empty_argument" -> 0
          [] case = "identical" -> ScoreUnit
          [] case = "empty_normalized" -> 0
          [] case = "substring" ->
                Hundredths(85) + Times(Ratio(Len(shorter), Len(longer)), 15)
          [] case = "weighted" -> Min(ScoreUnit, weightedSum(metrics(n1, n2)))

calculateSimilarity(str1, str2) ==
    The({similarityOf(n1, n2, returnOf(str1, str2, n1, n2)) :
        n1 \in {IF str1 = "" \/ str2 = "" THEN "" ELSE normalizeText(str1)},
        n2 \in {IF str1 = "" \/ str2 = "" THEN "" ELSE normalizeText(str2)}})

(***************************************************************************)
(* FuzzyMatcher.matchesImdbId.  What a matcher returns is modelled by its  *)
(* score and its method.  The identifiers of the specifications are "tt"   *)
(* and digits, so that no character of an identifier is special in a       *)
(* regular expression.                                                     *)
(***************************************************************************)
\* [\s\-_] and [\s\-_\.]
Separators == WhiteSpace \cup {"-", "_"}
DotSeparators == Separators \cup {"."}

\* directPatterns without the patterns that are delimited by \b
directPatternsBare(id, numericId) == <<
    [re |-> RCat(<<RLit("imdb"), RStar(RSet(Separators)), RLit(numericId)>>),
     ci |-> TRUE],
    [re |-> RLit("[" \o numericId \o "]"), ci |-> FALSE],
    [re |-> RLit("(" \o numericId \o ")"), ci |-> FALSE] >>

\* the patterns of a direct match, each with its i flag; id is imdbId
directPatterns(id, numericId) == <<
    [re |-> RCat(<<RWb, RLit("tt" \o toLowerCase(numericId)), RWb>>),
     ci |-> TRUE],
    [re |-> RCat(<<RWb, RLit(numericId), RWb>>), ci |-> FALSE],
    [re |-> RCat(<<RLit("imdb"), RStar(RSet(Separators)),
                   RLit(toLowerCase(numericId))>>),
     ci |-> TRUE],
    [re |-> RLit("[" \o numericId \o "]"), ci |-> FALSE],
    [re |-> RLit("(" \o numericId \o ")"), ci |-> FALSE],
    [re |-> RCat(<<RWb, RLit(toLowerCase(id)), RWb>>), ci |-> TRUE] >>

separatorPatterns(numericId) == <<
    RCat(<<RLit("imdb"), RStar(RSet(DotSeparators)), RLit(numericId)>>),
    RCat(<<RLit("tt"), RStar(RSet(DotSeparators)), RLit(numericId)>>),
    RCat(<<RWb, RLit(numericId), RStar(RSet(DotSeparators)), RLit("imdb")>>) >>

\* imdbId.replace('tt', '')
numericIdOf(id) == ReplaceFirst(RLit("tt"), id, "", FALSE)

\* the matcher found nothing yet
NoMatch == [score |-> 0, method |-> ""]

fuzzyImdbAnyRun(idMatches, numericId, k) ==
    IF idMatches = <<>> THEN NoMatch
    ELSE [score |-> Times(calculateLevenshteinSimilarity(idMatches[1],
                                                          numericId), 90),
          method |-> "fuzzy_imdb_exact_length"]

RECURSIVE fuzzyImdb(_, _, _)
\* the loop over idMatches from the k-th on: what it returns, or NoMatch
\* when it ends without a return
fuzzyImdb(idMatches, numericId, k) ==
    IF k > Len(idMatches) THEN NoMatch
    ELSE LET match == idMatches[k]
             similarity == calculateLevenshteinSimilarity(match, numericId)
         IN  IF Len(match) = Len(numericId) /\ similarity >= Hundredths(80)
             THEN [score |-> Times(similarity, 90),
                   method |-> "fuzzy_imdb_exact_length"]
             ELSE IF Len(match) > Len(numericId) /\ includes(match, numericId)
             THEN [score |-> Hundredths(85), method |-> "imdb_substring"]
             ELSE IF Len(numericId) > Len(match) /\ includes(numericId, match)
             THEN [score |-> Hundredths(75), method |-> "imdb_partial"]
             ELSE fuzzyImdb(idMatches, numericId, k + 1)

matchesImdbId(name, id) ==
    The({
        IF \E k \in DOMAIN direct : Test(direct[k].re, filenameLC, direct[k].ci)
        THEN [score |-> ScoreUnit, method |-> "direct_imdb"]
        ELSE IF fuzzy # NoMatch THEN fuzzy
        ELSE IF \E k \in DOMAIN separator : Test(separator[k], filenameLC, TRUE)
        THEN [score |-> Hundredths(90), method |-> "imdb_with_separator"]
        ELSE [score |-> 0, method |-> "no_imdb_match"] :
        filenameLC \in {toLowerCase(name)},
        direct \in {directPatterns(id, numericIdOf(id))},
        separator \in {separatorPatterns(numericIdOf(id))},
        \* filename.match(/\b\d{6,8}\b/g), then the loop over its matches
        fuzzy \in {fuzzyImdb(
                      MatchAll(RCat(<<RWb, RRep(RSet(Digits), 6, 8), RWb>>),
                               name, FALSE),
                      numericIdOf(id), 1)}})

(***************************************************************************)
(* FuzzyMatcher.matchesEpisode.  The season and the episode are numbers.   *)
(***************************************************************************)
DigitChars == <<"0", "1", "2", "3", "4", "5", "6", "7", "8", "9">>

\* the number NaN, which parseInt returns for a string that starts with no
\* digit; no number of the specifications is negative
NaN == -1

RECURSIVE toString(_)
\* n.toString() for NaN and for a whole number n >= 0
toString(n) ==
    IF n = NaN THEN "NaN"
    ELSE IF n < 10 THEN DigitChars[n + 1]
    ELSE toString(n \div 10) \o DigitChars[(n % 10) + 1]

\* str.padStart(2, '0')
padStart2(str) == IF Len(str) < 2 THEN repeat("0", 2 - Len(str)) \o str ELSE str

RECURSIVE digitsValue(_)
\* the number a string of digits denotes
digitsValue(str) ==
    IF str = "" THEN 0
    ELSE 10 * digitsValue(SubSeq(str, 1, Len(str) - 1))
         + (CHOOSE d \in 0..9 : DigitChars[d + 1] = Ch(str, Len(str)))

\* parseInt(str): the number of the digits str starts with, NaN when it
\* starts with none (no string of the specifications has a sign or a space)
parseInt(str) ==
    LET run == CHOOSE n \in 0..Len(str) :
                   /\ \A i \in 1..n : Ch(str, i) \in Digits
                   /\ n < Len(str) => Ch(str, n + 1) \notin Digits
    IN  IF run = 0 THEN NaN ELSE digitsValue(SubSeq(str, 1, run))

\* the patterns of an exact match, all with the i flag, in the order of the
\* code; S and E are the season and the episode as strings, SP and EP padded
exactPatterns(S, SP, E, EP) ==
    LET seps == RStar(RSet(DotSeparators))
        gaps == RStar(RSet(Separators))
        sep  == ROpt(RSet(DotSeparators))
    IN  <<RCat(<<RLit("s" \o SP \o "e" \o EP), RWb>>),
          RCat(<<RLit("s" \o S \o "e" \o E), RWb>>),
          RCat(<<RLit(S \o "x" \o EP), RWb>>),
          RCat(<<RLit(S \o "x" \o E), RWb>>),
          RCat(<<RLit("s" \o SP), seps, RLit("e" \o EP)>>),
          RCat(<<RLit("s" \o S), seps, RLit("e" \o E)>>),
          RCat(<<RLit("season"), seps, RLit(S), seps, RLit("episode"), seps,
                 RLit(E)>>),
          RCat(<<RLit("season"), seps, RLit(SP), seps, RLit("episode"), seps,
                 RLit(EP)>>),
          RCat(<<RLit("s" \o S), sep, RLit("e"), ROpt(RLit("p")), RLit(E),
                 RWb>>),
          RCat(<<RLit("s" \o SP), sep, RLit("e"), ROpt(RLit("p")), RLit(EP),
                 RWb>>),
          RCat(<<RWb, RLit("s" \o S \o EP), RWb>>),
          RCat(<<RWb, RLit("s" \o SP \o EP), RWb>>),
          RLit(".s" \o SP \o ".e" \o EP \o "."),
          RLit("." \o S \o "x" \o EP \o "."),
          RLit("[s" \o SP \o "e" \o EP \o "]"),
          RLit("(s" \o SP \o "e" \o EP \o ")"),
          RCat(<<RLit("season"), gaps, RLit(S), gaps, RLit("ep"), gaps,
                 RLit(E)>>),
          RCat(<<RLit("s" \o S), gaps, RLit(EP)>>)>>

RECURSIVE fuzzyEpisode(_, _, _, _)
\* the loop over the pairs of neighbours of numberMatches from the i-th on
\* (1-based): what it returns, or NoMatch when it ends without a return
fuzzyEpisode(numbers, s, e, i) ==
    IF i > Len(numbers) - 1 THEN NoMatch
    ELSE IF numbers[i] = s /\ numbers[i + 1] = e
    THEN [score |-> Hundredths(95), method |-> "fuzzy_episode_exact"]
    ELSE IF /\ numbers[i] = s
            /\ e # NaN     \* Math.abs(e - NaN) is NaN
            /\ (numbers[i + 1] - e = 1 \/ e - numbers[i + 1] = 1)
    THEN [score |-> Hundredths(80), method |-> "fuzzy_episode_close"]
    ELSE IF numbers[i] = s
    THEN [score |-> Hundredths(60), method |-> "fuzzy_season_only"]
    ELSE fuzzyEpisode(numbers, s, e, i + 1)

matchesEpisode(name, s, e) ==
    The({
        IF \E k \in DOMAIN exact : Test(exact[k], filenameLC, TRUE)
        THEN [score |-> ScoreUnit, method |-> "exact_episode"]
        ELSE The({
            IF Len(numbers) >= 2 /\ fuzzyEpisode(numbers, s, e, 1) # NoMatch
            THEN fuzzyEpisode(numbers, s, e, 1)
            ELSE IF /\ s = 1
                    /\ \E i \in DOMAIN numbers : numbers[i] = e
                    /\ e <= 50
                    /\ ~includes(filenameLC, toString(e) \o "p")
                    /\ ~includes(filenameLC, toString(e) \o "k")
            THEN [score |-> Hundredths(70), method |-> "episode_only_s1"]
            ELSE IF Test(RCat(<<RLit("season"), RStar(RSet(Separators)),
                                RLit(toString(s))>>), filenameLC, TRUE)
            THEN [score |-> Hundredths(50), method |-> "season_pack"]
            ELSE [score |-> 0, method |-> "no_match"] :
            \* filenameLC.match(/\b\d{1,3}\b/g), each match through parseInt
            numbers \in {[i \in DOMAIN found |-> parseInt(found[i])] :
                found \in {MatchAll(RCat(<<RWb, RRep(RSet(Digits), 1, 3),
                                           RWb>>), filenameLC, FALSE)}}}) :
        filenameLC \in {toLowerCase(name)},
        exact \in {exactPatterns(toString(s), padStart2(toString(s)),
                                 toString(e), padStart2(toString(e)))}})

(***************************************************************************)
(* FuzzyMatcher.extractTitle, extractYear, matchesByTitle and              *)
(* analyzeFilename.  An absent title or year (null) is the empty string,   *)
(* which the code's tests of targetTitle, targetYear and fileYear treat    *)
(* as they treat null.                                                     *)
(***************************************************************************)
\* the patterns extractTitle removes one after the other, all without g
cleanPatterns ==
    LET rest == RCat(<<RStar(RAny), REnd>>)
    IN  << [re |-> RCat(<<RWb, RRep(RSet(Digits), 3, 4), RLit("p"), RWb, rest>>),
            ci |-> TRUE],
           [re |-> RCat(<<RWords({"hdtv"}), rest>>), ci |-> TRUE],
           [re |-> RCat(<<RWords({"bluray"}), rest>>), ci |-> TRUE],
           [re |-> RCat(<<RWords({"webrip"}), rest>>), ci |-> TRUE],
           [re |-> RCat(<<RWords({"x264"}), rest>>), ci |-> TRUE],
           [re |-> RCat(<<RWords({"h264"}), rest>>), ci |-> TRUE],
           [re |-> RCat(<<RLit("[-"), RLazy(RAny), RLit("-]"), REnd>>),
            ci |-> FALSE] >>

RECURSIVE removeCleanPatterns(_, _)
\* for (const pattern of cleanPatterns):
\*     basename = basename.replace(pattern, '')
removeCleanPatterns(s, patterns) ==
    IF patterns = <<>> \/ s = "" THEN s
    ELSE LET replaced ==
                ReplaceFirst(Head(patterns).re, s, "", Head(patterns).ci)
         IN  IF replaced = "" THEN ""
             ELSE removeCleanPatterns(replaced, Tail(patterns))

\* the year of extractTitle and what follows it, cut when what follows is
\* short or made of separators
removeYear(basename) ==
    The({
        IF yearMatch[1] < 0 THEN basename
        ELSE The({
            IF \/ Len(afterYear) < 10
               \/ \A i \in 1..Len(afterYear) :
                     Ch(afterYear, i)
                         \in WhiteSpace \cup {"-", ".", "_", "[", "]", "(", ")"}
            THEN trim(Substring(basename, 0, yearIndex))
            ELSE basename :
            afterYear \in {trim(Substring(basename, yearIndex + 4,
                                          Len(basename))) :
                yearIndex \in {indexOf(basename,
                                 SubSeq(basename, yearMatch[1] + 1,
                                        yearMatch[2]))}},
            yearIndex \in {indexOf(basename,
                             SubSeq(basename, yearMatch[1] + 1,
                                    yearMatch[2]))}}) :
        \* basename.match(/\b(19|20)\d{2}\b/)
        yearMatch \in {MatchFrom(
            RCat(<<RWb, RAlt(<<RLit("19"), RLit("20")>>),
                   RRep(RSet(Digits), 2, 2), RWb>>), basename, 0, FALSE)}})

\* the steps of extractTitle in the order of the code, innermost first
extractTitle(name) ==
    LET d == RSet(Digits)
        Extension ==
            RCat(<<RLit("."), RAlt(<<RLit("srt"), RLit("vtt"), RLit("ass"),
                                     RLit("ssa"), RLit("sub")>>), REnd>>)
        Prefix ==
            RCat(<<RBegin, RAlt(<<RLit("www."), RLit("download."),
                                  RLit("get."), RLit("watch."),
                                  RLit("stream.")>>)>>)
        Suffix ==
            RCat(<<RLit("."), RAlt(<<RLit("com"), RLit("org"), RLit("net"),
                                     RLit("tv"), RLit("me"), RLit("to")>>),
                   REnd>>)
        \* /\b(s\d{1,2}e\d{1,2}|season\s*\d+|episode\s*\d+|\d+x\d+)\b.*$/i
        SeasonEpisode ==
            RCat(<<RWb,
                   RAlt(<<RCat(<<RLit("s"), RRep(d, 1, 2), RLit("e"),
                                 RRep(d, 1, 2)>>),
                          RCat(<<RLit("season"), RStar(RSet(WhiteSpace)),
                                 RPlus(d)>>),
                          RCat(<<RLit("episode"), RStar(RSet(WhiteSpace)),
                                 RPlus(d)>>),
                          RCat(<<RPlus(d), RLit("x"), RPlus(d)>>)>>),
                   RWb, RStar(RAny), REnd>>)
    IN  The({normalizeText(cleaned) :
            cleaned    \in {removeCleanPatterns(noEpisode, cleanPatterns) :
            noEpisode  \in {ReplaceFirst(SeasonEpisode, noYear, "", TRUE) :
            noYear     \in {removeYear(noSuffix) :
            noSuffix   \in {ReplaceFirst(Suffix, noPrefix, "", TRUE) :
            noPrefix   \in {ReplaceFirst(Prefix, noExt, "", TRUE) :
            noExt      \in {ReplaceFirst(Extension, name, "", TRUE)}}}}}}})

RECURSIVE releaseYear(_, _, _)
\* the loop of extractYear over yearMatches from the k-th on: the year it
\* returns, or "" when it ends without a return
releaseYear(name, yearMatches, k) ==
    IF k > Len(yearMatches) THEN ""
    ELSE LET year == yearMatches[k]
             yearNum == parseInt(year)
             yearIndex == indexOf(name, year)
             before == Substring(name, Max(0, yearIndex - 10), yearIndex)
             after == Substring(name, yearIndex + 4, yearIndex + 20)
         IN  IF /\ yearNum >= 1920
                /\ yearNum <= 2030
                /\ ~Test(RCat(<<RRep(RSet(Digits), 3, 4), RLit("p")>>),
                         before \o year \o after, TRUE)
             THEN year
             ELSE releaseYear(name, yearMatches, k + 1)

\* "" where the code returns null
extractYear(name) ==
    The({
        IF yearMatches = <<>> THEN ""
        ELSE IF releaseYear(name, yearMatches, 1) # ""
        THEN releaseYear(name, yearMatches, 1)
        ELSE yearMatches[1] :
        \* filename.match(/\b(19[2-9]\d|20[0-5]\d)\b/g)
        yearMatches \in {MatchAll(
            RCat(<<RWb,
                   RAlt(<<RCat(<<RLit("19"),
                                 RSet({"2", "3", "4", "5", "6", "7", "8", "9"}),
                                 RSet(Digits)>>),
                          RCat(<<RLit("20"),
                                 RSet({"0", "1", "2", "3", "4", "5"}),
                                 RSet(Digits)>>)>>),
                   RWb>>), name, FALSE)}})

\* yearBonus - yearPenalty of matchesByTitle
yearAdjustment(fileYear, targetYear) ==
    LET diff == parseInt(fileYear) - parseInt(targetYear)
        yearDiff == IF diff < 0 THEN 0 - diff ELSE diff
    IN  IF targetYear # "" /\ fileYear # ""
        THEN IF yearDiff = 0 THEN Hundredths(25)
             ELSE IF yearDiff = 1 THEN Hundredths(15)
             ELSE IF yearDiff <= 3 THEN Hundredths(5)
             ELSE IF yearDiff > 10 THEN 0 - Hundredths(20)
             ELSE 0
        ELSE IF targetYear # "" /\ fileYear = "" THEN Hundredths(5)
        ELSE IF targetYear = "" /\ fileYear # "" THEN Hundredths(3)
        ELSE Hundredths(10)

matchesByTitle(name, targetTitle, targetYear, threshold) ==
    The({
        IF fileTitle = "" THEN [score |-> 0, method |-> "no_title"]
        ELSE The({
            LET lengthBonus ==
                    IF 10 * Min(Len(fileTitle), Len(normalizedTarget))
                       > 7 * Max(Len(fileTitle), Len(normalizedTarget))
                    THEN Hundredths(10) ELSE 0
                fileWords == Len(split(fileTitle, " "))
                targetWords == Len(split(normalizedTarget, " "))
                wordCountBonus ==
                    IF 10 * Min(fileWords, targetWords)
                       > 8 * Max(fileWords, targetWords)
                    THEN Hundredths(5) ELSE 0
                clamped ==
                    Max(0, Min(ScoreUnit,
                               titleSimilarity
                               + yearAdjustment(fileYear, targetYear)
                               + lengthBonus + wordCountBonus))
                suspicious ==
                    Test(RWords({"sample", "trailer", "teaser", "preview",
                                 "clip", "demo", "test"}), name, TRUE)
                reduced ==
                    IF clamped > threshold /\ suspicious
                    THEN Times(clamped, 50) ELSE clamped
                finalScore ==
                    IF /\ clamped > threshold
                       /\ Len(normalizedTarget) < 5
                       /\ titleSimilarity < Hundredths(90)
                    THEN Times(reduced, 60) ELSE reduced
            IN  IF finalScore >= threshold
                THEN [score |-> finalScore, method |-> "enhanced_title_match"]
                ELSE [score |-> finalScore, method |-> "below_threshold"] :
            titleSimilarity
                \in {calculateSimilarity(fileTitle, normalizedTarget)}}) :
        fileTitle \in {extractTitle(name)},
        fileYear \in {extractYear(name)},
        normalizedTarget \in {normalizeText(targetTitle)}})

\* path.basename(filename, path.extname(filename)) for a name without "/"
basenameOf(name) ==
    LET dots == {i \in 2..Len(name) : Ch(name, i) = "."}
        lastDot == CHOOSE i \in dots : \A j \in dots : j <= i
    IN  IF dots = {} THEN name ELSE SubSeq(name, 1, lastDot - 1)

analyzeFilename(name, targetTitle, targetYear) ==
    The({
        LET yearMatch ==
                IF targetYear # "" /\ includes(basename, targetYear)
                THEN Hundredths(20) ELSE 0
            quality ==
                IF Test(Bounded(<<RLit("1080p"), RLit("720p"), RLit("4k"),
                                  RLit("bluray"), RLit("web-dl"),
                                  RLit("webrip")>>), basename, TRUE)
                THEN Hundredths(10) ELSE 0
            negative ==
                IF Test(RWords({"sample", "trailer", "preview", "cam", "ts",
                                "screener"}), basename, TRUE)
                THEN Hundredths(30) ELSE 0
        IN  The({
              [score |-> Max(0, Min(ScoreUnit,
                                    yearMatch + keywords + quality - negative)),
               method |-> "filename_analysis"] :
              keywords \in {
                  IF targetTitle = "" THEN 0
                  ELSE The({
                      LET wordMatches ==
                              {i \in DOMAIN titleWords :
                                  \E j \in DOMAIN filenameWords :
                                      \/ includes(filenameWords[j], titleWords[i])
                                      \/ includes(titleWords[i], filenameWords[j])}
                      IN  Times(Ratio(Cardinality(wordMatches),
                                      Len(titleWords)), 30) :
                      titleWords \in {split(normalizeText(targetTitle), " ")},
                      filenameWords \in {split(normalizeText(basename), " ")}})}}) :
        basename \in {basenameOf(name)}})

(***************************************************************************)
(* FuzzyMatcher.findBestMatches.  A file is the index of its name in the   *)
(* list files; an element of the array it returns is the record            *)
(* [file, match] of the code, match being [score, method].                 *)
(***************************************************************************)
\* the weights of the strategies of a movie, in tenths
strategiesOf(imdbMatch, titleMatch, filenameScore, targetTitle) ==
    <<[score |-> imdbMatch.score, method |-> imdbMatch.method, weight |-> 7]>>
    \o (IF targetTitle # ""
        THEN <<[score |-> titleMatch.score, method |-> titleMatch.method,
                weight |-> 6]>>
        ELSE <<>>)
    \o <<[score |-> filenameScore.score, method |-> filenameScore.method,
          weight |-> 4]>>

RECURSIVE weightedTotal(_, _)
\* strategies.reduce((sum, s) => sum + (s.score * s.weight), 0) in tenths,
\* the score of every strategy being unit when unit is not 0 (the sum of
\* the weights is weightedTotal(strategies, 1))
weightedTotal(strategies, unit) ==
    IF strategies = <<>> THEN 0
    ELSE (IF unit = 0 THEN Head(strategies).score ELSE unit)
             * Head(strategies).weight
         + weightedTotal(Tail(strategies), unit)

\* the sum of the weighted scores, not divided by the sum of the weights
combinedScoreUndivided(strategies) == weightedTotal(strategies, 0) \div 10

combinedScore(strategies) ==
    weightedTotal(strategies, 0) \div weightedTotal(strategies, 1)

RECURSIVE bestStrategyOf(_, _, _)
\* strategies.reduce((best, current) =>
\*     current.score > best.score ? current : best), from the k-th on
lastStrategyOf(strategies, k, best) == strategies[Len(strategies)]
bestStrategyOf(strategies, k, best) ==
    IF k > Len(strategies) THEN best
    ELSE bestStrategyOf(strategies, k + 1,
                        IF strategies[k].score > best.score
                        THEN strategies[k] ELSE best)

\* the branch type === 'movie' of the loop: matchResult
movieMatch(name, id, targetTitle, targetYear) ==
    The({
        The({
            IF /\ Cardinality({k \in DOMAIN strategies :
                                  strategies[k].score > Hundredths(50)}) > 1
               /\ combinedScore(strategies) > bestStrategy.score
            THEN [score |-> combinedScore(strategies),
                  method |-> "multi_strategy"]
            ELSE [score |-> bestStrategy.score,
                  method |-> bestStrategy.method] :
            strategies \in {strategiesOf(imdbMatch, titleMatch, filenameScore,
                                         targetTitle)},
            bestStrategy
                \in {bestStrategyOf(
                        strategiesOf(imdbMatch, titleMatch, filenameScore,
                                     targetTitle),
                        2, [score |-> imdbMatch.score,
                            method |-> imdbMatch.method, weight |-> 7])}}) :
        imdbMatch \in {matchesImdbId(name, id)},
        titleMatch \in {IF targetTitle = "" THEN NoMatch
                        ELSE matchesByTitle(name, targetTitle, targetYear,
                                            Hundredths(50))},
        filenameScore \in {analyzeFilename(name, targetTitle, targetYear)}})

\* the branch season && episode of type === 'series': matchResult from the
\* results of the two matchers
seriesResult(episodeMatch, imdbMatch) ==
    IF episodeMatch.score > 0 /\ imdbMatch.score > 0
    THEN [score |-> Times(episodeMatch.score, 70)
                    + Times(imdbMatch.score, 30),
          method |-> "series_combined"]
    ELSE IF episodeMatch.score > Hundredths(60) THEN episodeMatch
    ELSE IF /\ imdbMatch.score > Hundredths(70)
            /\ episodeMatch.score > Hundredths(20)
    THEN [score |-> Times(imdbMatch.score, 60)
                    + Times(episodeMatch.score, 40),
          method |-> "series_imdb_weighted"]
    ELSE IF episodeMatch.score > imdbMatch.score THEN episodeMatch
    ELSE imdbMatch

\* the branch type === 'series' of the loop: matchResult; the parts of id
\* are imdbId, season and episode of the code, an absent part (undefined)
\* being the empty string
seriesMatch(name, id) ==
    LET parts == split(id, ":")
        seasonPart == IF Len(parts) >= 2 THEN parts[2] ELSE ""
        episodePart == IF Len(parts) >= 3 THEN parts[3] ELSE ""
    IN  IF seasonPart # "" /\ episodePart # ""
        THEN The({
            seriesResult(episodeMatch, imdbMatch) :
            episodeMatch \in {matchesEpisode(name, parseInt(seasonPart),
                                             parseInt(episodePart))},
            imdbMatch \in {matchesImdbId(name, parts[1])}})
        ELSE matchesImdbId(name, parts[1])

\* the body of the loop over the files: matchResult of one file
matchResultOf(name, type, id, targetTitle, targetYear) ==
    IF type = "movie" THEN movieMatch(name, id, targetTitle, targetYear)
    ELSE IF type = "series" THEN seriesMatch(name, id)
    ELSE [score |-> 0, method |-> "none"]

\* the threshold with > in the place of >=
aboveThreshold(score, minScore) == score > minScore

\* matchResult.score >= minScore
passesThreshold(score, minScore) == score >= minScore

\* the array matches before the sort
thresholdMatches(matchResults, minScore) ==
    SelectSeq([i \in DOMAIN matchResults |->
                  [file |-> i, match |-> matchResults[i]]],
              LAMBDA m : passesThreshold(m.match.score, minScore))

methodPriority(method) ==
    CASE method = "direct_imdb" -> 10
      [] method = "exact_episode" -> 9
      [] method = "series_combined" -> 8
      [] method = "enhanced_title_match" -> 7
      [] method = "multi_strategy" -> 6
      [] method = "fuzzy_imdb_exact_length" -> 5
      [] method = "fuzzy_episode_exact" -> 4
      [] OTHER -> 0

\* the function given to matches.sort: negative when a is to come first
comparefn(a, b) ==
    IF a.match.score - b.match.score < Hundredths(1)
       /\ b.match.score - a.match.score < Hundredths(1)
    THEN methodPriority(b.match.method) - methodPriority(a.match.method)
    ELSE b.match.score - a.match.score

(***************************************************************************)
(* Array.prototype.sort.  With a function that is not a consistent         *)
(* comparison the order is left to the engine, so the model takes the two  *)
(* sorts V8 has had for an array this short: the insertion sort of the old *)
(* versions (arrays of up to 10 elements) and the insertion sort with      *)
(* binary search that TimSort applies to an array of less than 64          *)
(* elements after it has found the run the array starts with.  Both are    *)
(* stable and give the same array whenever comparefn is consistent.        *)
(***************************************************************************)
RECURSIVE linearPosition(_, _, _)
\* how many of the first j elements of a stay before element: the scan
\* from the j-th downwards stops at the first that is not to come after it
linearPosition(a, element, j) ==
    IF j >= 1 /\ comparefn(a[j], element) > 0
    THEN linearPosition(a, element, j - 1) ELSE j

RECURSIVE binaryPosition(_, _, _, _)
\* the same by binary search between left and right
binaryPosition(a, pivot, left, right) ==
    IF left >= right THEN left
    ELSE LET mid == left + (right - left) \div 2
         IN  IF comparefn(pivot, a[mid + 1]) < 0
             THEN binaryPosition(a, pivot, left, mid)
             ELSE binaryPosition(a, pivot, mid + 1, right)

RECURSIVE insertionSort(_, _, _)
\* the elements of a from the start-th on inserted one by one into the
\* sorted elements before them
insertionSort(a, start, binary) ==
    IF start > Len(a) THEN a
    ELSE LET k == IF binary THEN binaryPosition(a, a[start], 0, start - 1)
                  ELSE linearPosition(a, a[start], start - 1)
         IN  insertionSort(SubSeq(a, 1, k) \o <<a[start]>>
                           \o SubSeq(a, k + 1, start - 1)
                           \o SubSeq(a, start + 1, Len(a)),
                           start + 1, binary)

RECURSIVE runLength(_, _, _)
\* the length of the run a starts with, idx being the first element not
\* yet looked at
runLength(a, idx, isDescending) ==
    IF idx > Len(a) THEN Len(a)
    ELSE IF isDescending = (comparefn(a[idx], a[idx - 1]) < 0)
    THEN runLength(a, idx + 1, isDescending)
    ELSE idx - 1

\* the arrays matches.sort(comparefn) can leave
sortOutcomes(a) ==
    IF Len(a) < 2 THEN {a}
    ELSE LET isDescending == comparefn(a[2], a[1]) < 0
             run == runLength(a, 3, isDescending)
             reversed == [i \in 1..Len(a) |->
                             IF isDescending /\ i <= run THEN a[run + 1 - i]
                             ELSE a[i]]
         IN  {insertionSort(a, 2, FALSE), insertionSort(reversed, run + 1, TRUE)}

\* what the loop logs as the final result of each file, and the arrays the
\* call can return
findBestMatchesCarried(files, type, id, targetTitle, targetYear, minScore) ==
    The({
        The({[logged |-> matchResults, returned |-> sortOutcomes(matches)] :
            matches \in {thresholdMatches(matchResults, minScore)}}) :
        matchResults \in {[i \in DOMAIN files |->
            matchResultOf(files[1], type, id, targetTitle, targetYear)]}})
findBestMatches(files, type, id, targetTitle, targetYear, minScore) ==
    The({
        The({[logged |-> matchResults, returned |-> sortOutcomes(matches)] :
            matches \in {thresholdMatches(matchResults, minScore)}}) :
        matchResults \in {[i \in DOMAIN files |->
            matchResultOf(files[i], type, id, targetTitle, targetYear)]}})

(***************************************************************************)
(* The subtitles handler (handleSubtitlesRequest) and its collaborators:   *)
(* the listing of the repository (fetchGitHubFiles) and the metadata       *)
(* lookup (getMovieInfo, with the module-level movieCache).  An exception  *)
(* is a value: the name of the error a call throws, "" when it returns.    *)
(***************************************************************************)
\* the value undefined (an id the request does not have); no string of the
\* specifications equals it
undefined == "<undefined>"

\* isSubtitleFile without the i flag
isSubtitleFileCased(name) ==
    Test(RCat(<<RLit("."),
                RAlt(<<RLit("srt"), RLit("vtt"), RLit("ass"), RLit("ssa"),
                       RLit("sub")>>),
                REnd>>), name, FALSE)

\* /\.(srt|vtt|ass|ssa|sub)$/i.test(name)
isSubtitleFile(name) ==
    Test(RCat(<<RLit("."),
                RAlt(<<RLit("srt"), RLit("vtt"), RLit("ass"), RLit("ssa"),
                       RLit("sub")>>),
                REnd>>), name, TRUE)

RECURSIVE fetchGitHubFiles(_), listedFiles(_, _)
\* fetchGitHubFiles(repo, path), given what GitHub answers for the path:
\* answer.status is "ok", "error" (response.ok is false) or "throws" (fetch
\* or response.json rejects); an "ok" answer is an array of items (isArray,
\* data) or something else; the item of a directory carries, as listing,
\* the answer for the path of the directory
fetchGitHubFiles(answer) ==
    IF answer.status # "ok" THEN <<>>       \* thrown, caught: return []
    ELSE IF ~answer.isArray THEN <<>>
    ELSE listedFiles(answer.data, 1)

\* the loop over the items of data from the k-th on
listedFiles(data, k) ==
    IF k > Len(data) THEN <<>>
    ELSE (IF data[k].type = "file" /\ isSubtitleFile(data[k].name)
          THEN <<[name |-> data[k].name, path |-> data[k].path]>>
          ELSE IF data[k].type = "dir"
          THEN fetchGitHubFiles(data[k].listing)
          ELSE <<>>) \o listedFiles(data, k + 1)

\* null, as getMovieInfo returns it, and the movieInfo of an answer of the
\* provider: "True" (data.Response === 'True'), "False", or "unreachable"
\* (fetch or response.json rejects)
NoInfo == [exists |-> FALSE, title |-> "", year |-> ""]

movieInfoOf(answer) ==
    IF answer = "True"
    THEN [exists |-> TRUE, title |-> "Movie Title", year |-> "2020"]
    ELSE NoInfo

\* movieCache after getMovieInfo(id) missed it and the provider answered
cachedAfter(cache, id, answer) ==
    IF answer = "unreachable" THEN cache    \* caught: nothing is stored
    ELSE [k \in DOMAIN cache \cup {id} |->
            IF k = id THEN movieInfoOf(answer) ELSE cache[k]]

\* new RegExp(source) throws a SyntaxError: of the characters the
\* specifications put in an identifier only "(" is special in a pattern,
\* and it opens a group that nothing closes
invalidPattern(source) == includes(source, "(")

\* the error findBestMatches(files, type, id, ...) throws, "" when it returns
thrownBy(files, type, id) ==
    IF files = <<>> \/ type \notin {"movie", "series"} THEN ""
    ELSE IF id = undefined THEN "TypeError"   \* imdbId.replace, id.split
    ELSE IF invalidPattern(numericIdOf(split(id, ":")[1]))
    THEN "SyntaxError"                        \* new RegExp in matchesImdbId
    ELSE ""

\* the configuration of the request: args.config when it is truthy, or else
\* extra.config; an absent object has present = FALSE
NoConfig == [present |-> FALSE, github_repo |-> "", github_path |-> ""]

configOf(args) ==
    IF args.config.present THEN args.config
    ELSE IF args.extra.present /\ args.extra.config.present
    THEN args.extra.config
    ELSE NoConfig

\* the catch clause of handleSubtitlesRequest
caughtUnsettled(error) == [settled |-> "rejected", subtitles |-> <<>>]
caught(error) == [settled |-> "fulfilled", subtitles |-> <<>>]

RECURSIVE sortByScore(_, _)
\* subtitles.sort((a, b) => b._score - a._score), the first k elements
\* sorted: every sort the engine may run is stable on an array this short
sortByScore(subtitles, k) ==
    IF k = 0 THEN <<>>
    ELSE LET head == sortByScore(subtitles, k - 1)
             at == Cardinality({i \in DOMAIN head :
                                  head[i]._score >= subtitles[k]._score})
         IN  SubSeq(head, 1, at) \o <<subtitles[k]>>
             \o SubSeq(head, at + 1, Len(head))

\* the subtitle of a match, with the fields the sort reads
subtitleOf(config, files, entry) ==
    [id |-> "github:" \o config.github_repo \o ":" \o files[entry.file].path,
     filename |-> files[entry.file].name,
     _score |-> entry.match.score]

\* lines 89 to 158: the engine is called, the subtitles are built, sorted
\* and cleaned; the set of the ways the call may go (one for each outcome
\* of the sort of the engine), each with the array matches the engine
\* returned and the response the call resolves to
handlingsOf(config, files, type, id, movieInfo) ==
    IF thrownBy(files, type, id) # ""
    THEN {[matches |-> <<>>, response |-> caught(error)] :
             error \in {thrownBy(files, type, id)}}
    ELSE { The({[matches |-> matches,
                 response |->
                    [settled |-> "fulfilled",
                     subtitles |-> [i \in DOMAIN sorted |->
                                      [id |-> sorted[i].id,
                                       filename |-> sorted[i].filename]]]] :
                sorted \in {sortByScore(
                    [i \in DOMAIN matches |-> subtitleOf(config, files, matches[i])],
                    Len(matches))}}) :
           matches \in
              findBestMatches([i \in DOMAIN files |-> files[i].name], type, id,
                              movieInfo.title, movieInfo.year,
                              Hundredths(30)).returned }

\* the responses the call may resolve to
responsesOf(config, files, type, id, movieInfo) ==
    {handling.response :
        handling \in handlingsOf(config, files, type, id, movieInfo)}

(***************************************************************************)
(* SpecNorm: normalizeText applied to a text, then to its own result.      *)
(***************************************************************************)
\* the longest text SpecNorm draws
MaxTextLen == 4

\* the characters of the texts of SpecNorm
NormAlphabet == {"a", "i", "p", "s", "t", "A", "'", " ", ".", "_"}

RECURSIVE StringsUpTo(_, _)
\* the strings over the alphabet of at most n characters
StringsUpTo(alphabet, n) ==
    IF n = 0 THEN {""}
    ELSE LET shorter == StringsUpTo(alphabet, n - 1)
         IN  shorter \cup {s \o c : s \in shorter, c \in alphabet}

NormTexts == StringsUpTo(NormAlphabet, MaxTextLen)

InitNorm ==
    /\ pc = "text"
    /\ text \in NormTexts
    /\ norm1 = ""
    /\ norm2 = ""
    /\ IdleSim
    /\ IdleFile
    /\ IdleRank
    /\ IdleHandler

\* const n = matcher.normalizeText(text)
Normalize ==
    /\ pc = "text"
    /\ norm1' = normalizeText(text)
    /\ pc' = "normalized"
    /\ UNCHANGED <<text, norm2, simVars, fileVars,
                 rankVars, handlerVars>>

\* matcher.normalizeText(n): what calculateSimilarity does to the titles
\* extractTitle and matchesByTitle have normalized already
Renormalize ==
    /\ pc = "normalized"
    /\ norm2' = normalizeText(norm1)
    /\ pc' = "renormalized"
    /\ UNCHANGED <<text, norm1, simVars, fileVars,
                 rankVars, handlerVars>>

NextNorm == Normalize \/ Renormalize

SpecNorm == InitNorm /\ [][NextNorm]_vars

\* C1: normalizeText is idempotent: normalizing a normalized text changes
\* nothing
C1_Idempotent == pc = "renormalized" => norm2 = norm1

\* C16: the result of normalizeText has only lower-case letters, digits
\* and spaces, no space at its start or its end and no two spaces in a row,
\* and none of its words is a stop word
C16_NormalForm ==
    pc = "normalized" =>
        /\ \A i \in 1..Len(norm1) :
              Ch(norm1, i) \in LowerLetters \cup Digits \cup {" "}
        /\ Ch(norm1, 1) # " "
        /\ Ch(norm1, Len(norm1)) # " "
        /\ ~includes(norm1, "  ")
        /\ \A word \in Range(split(norm1, " ")) : word \notin stopWords

(***************************************************************************)
(* SpecSim: calculateSimilarity on two texts, in both orders.              *)
(***************************************************************************)
InitSim ==
    /\ pc = "strings"
    /\ first \in SimTexts
    /\ second \in SimTexts
    /\ sim12 = 0
    /\ sim21 = 0
    /\ simCase = ""
    /\ subMetrics = <<>>
    /\ IdleNorm
    /\ IdleFile
    /\ IdleRank
    /\ IdleHandler

\* matcher.calculateSimilarity(first, second) and, the arguments swapped,
\* matcher.calculateSimilarity(second, first)
Compare ==
    /\ pc = "strings"
    /\ sim12' = calculateSimilarity(first, second)
    /\ sim21' = calculateSimilarity(second, first)
    /\ \E n1 \in {normalizeText(first)}, n2 \in {normalizeText(second)} :
          /\ simCase' = returnOf(first, second, n1, n2)
          /\ subMetrics' = IF simCase' = "weighted" THEN metrics(n1, n2)
                           ELSE <<>>
    /\ pc' = "compared"
    /\ UNCHANGED <<first, second, normVars, fileVars,
                 rankVars, handlerVars>>

NextSim == Compare

SpecSim == InitSim /\ [][NextSim]_vars

\* C2: the similarity is 0 whenever a text is empty after normalization, both
\* texts included, and 1.0 when the normalized texts are identical and not
\* empty
C2_EmptyIsZero ==
    pc = "compared" =>
        /\ (normalizeText(first) = "" \/ normalizeText(second) = "") => sim12 = 0
        /\ (normalizeText(first) = normalizeText(second) /\ normalizeText(first) # "")
              => sim12 = ScoreUnit

\* C3: the similarity, each of the five metrics and their weighted sum lie
\* in [0, 1]
C3_Bounded ==
    pc = "compared" =>
        /\ sim12 >= 0 /\ sim12 <= ScoreUnit
        /\ \A m \in DOMAIN subMetrics :
              subMetrics[m] >= 0 /\ subMetrics[m] <= ScoreUnit
        /\ subMetrics # <<>> =>
              weightedSum(subMetrics) >= 0 /\ weightedSum(subMetrics) <= ScoreUnit

\* C3, the case: the metrics were combined, the word metric having both an
\* exact and a partial match
C3_Witness ==
    /\ pc = "compared"
    /\ simCase = "weighted"
    /\ LET words1 == split(normalizeText(first), " ")
           words2 == split(normalizeText(second), " ")
       IN  /\ Range(words1) \cap Range(words2) # {}
           /\ partialMatchSum(words1, words2, 1,
                              Range(words1) \cap Range(words2), {}) > 0
    /\ sim12 > 0 /\ sim12 < ScoreUnit

\* C4: the similarity of two texts does not depend on their order
C4_Symmetric == pc = "compared" => sim12 = sim21

(***************************************************************************)
(* SpecImdb: matchesImdbId on a filename that holds the identifier of the  *)
(* request, or a text close to it, between other characters.               *)
(***************************************************************************)
ImdbIds == {"tt0111161", "tt1234567", "tt123456", "tt12345678"}

\* what a filename holds of the identifier id: the identifier, its numeric
\* core, the identifier in upper case, the core without its first digit,
\* the core with another last digit
Occurrences(id) ==
    {id, numericIdOf(id), "TT" \o numericIdOf(id), Tail(numericIdOf(id)),
     SubSeq(numericIdOf(id), 1, Len(numericIdOf(id)) - 1) \o "9"}

\* what comes before and after it
Before == {"", "movie.", "movie_", "x", "1", "[", "(", "imdb-", "tt_"}
After == {"", ".srt", "_en.srt", "2.srt", "].srt", ").srt", "x.srt", ".imdb"}

ImdbFilenames(id) ==
    {b \o o \o a : b \in Before, o \in Occurrences(id), a \in After}
    \cup {"movie.2023.srt", "0111162.srt", "1234568.en.srt"}

InitImdb ==
    /\ pc = "file"
    /\ imdbId \in ImdbIds
    /\ filename \in ImdbFilenames(imdbId)
    /\ season = 0
    /\ episode = 0
    /\ result = <<>>
    /\ IdleNorm
    /\ IdleSim
    /\ IdleRank
    /\ IdleHandler

\* matcher.matchesImdbId(filename, imdbId)
MatchImdb ==
    /\ pc = "file"
    /\ result' = matchesImdbId(filename, imdbId)
    /\ pc' = "matched"
    /\ UNCHANGED <<filename, imdbId, season, episode, normVars, simVars,
                 rankVars, handlerVars>>

NextImdb == MatchImdb

SpecImdb == InitImdb /\ [][NextImdb]_vars

\* t occurs in s with no word character (letter, digit, underscore) right
\* before or right after the occurrence
Delimited(s, t) ==
    \E i \in 0..(Len(s) - Len(t)) :
        /\ SubSeq(s, i + 1, i + Len(t)) = t
        /\ Ch(s, i) \notin WordChars
        /\ Ch(s, i + Len(t) + 1) \notin WordChars

DigitRuns(name) ==
    {SubSeq(name, i, j) : i \in 1..Len(name), j \in 1..Len(name)}
    \cap {SubSeq(name, i, j) : <<i, j>> \in
             {ij \in (1..Len(name)) \X (1..Len(name)) :
                /\ ij[2] - ij[1] + 1 \in 6..8
                /\ \A k \in ij[1]..ij[2] : Ch(name, k) \in Digits
                /\ Ch(name, ij[1] - 1) \notin WordChars
                /\ Ch(name, ij[2] + 1) \notin WordChars}}

\* C17: a result of the fuzzy tier of matchesImdbId has a score from 0.75 to
\* 0.9: a run of the length of the core whose similarity to it is at least
\* 0.8 scores 0.9 times the similarity, a longer run that contains the core
\* scores 0.85 and a shorter run the core contains scores 0.75
C17_FuzzyRange ==
    pc = "matched" =>
        \A core \in {numericIdOf(imdbId)} :
            /\ result.method \in {"fuzzy_imdb_exact_length", "imdb_substring",
                                  "imdb_partial"}
               => result.score >= Hundredths(75) /\ result.score <= Hundredths(90)
            /\ result.method = "fuzzy_imdb_exact_length"
               => \E run \in DigitRuns(filename) :
                     /\ Len(run) = Len(core)
                     /\ calculateLevenshteinSimilarity(run, core) >= Hundredths(80)
                     /\ result.score
                           = Times(calculateLevenshteinSimilarity(run, core), 90)
            /\ result.method = "imdb_substring"
               => /\ result.score = Hundredths(85)
                  /\ \E run \in DigitRuns(filename) :
                        Len(run) > Len(core) /\ includes(run, core)
            /\ result.method = "imdb_partial"
               => /\ result.score = Hundredths(75)
                  /\ \E run \in DigitRuns(filename) :
                        Len(run) < Len(core) /\ includes(core, run)

\* C17, the case: a run of six digits, one of them not of the core, has the
\* lowest score of the tier, 0.9 times 5/6
C17_Witness ==
    /\ pc = "matched"
    /\ result.method = "fuzzy_imdb_exact_length"
    /\ Len(numericIdOf(imdbId)) = 6
    /\ result.score = Hundredths(75)

(***************************************************************************)
(* SpecEpisode: matchesEpisode on a filename that names a season and an    *)
(* episode in one of the usual forms, for a request of the same or of      *)
(* other numbers.                                                          *)
(***************************************************************************)
EpSeasons == {1, 2, 11}
EpEpisodes == {2, 12, 21}

\* the forms of the specification: SxxEyy, NxMM, "season N episode M",
\* zero-padded or unpadded, bracketed or dotted
ListedForms ==
    {"SxxEyy", "SxEy", "NxMM", "NxM", "season N episode M",
     "Season.NN.Episode.MM", "[SxxEyy]", ".sxx.eyy."}

\* SxxEyy with one of the two numbers padded only
MixedForms == {"SxxEy", "SxEyy"}

\* the episode alone, padded or not, and the episode before the mark of a
\* resolution that starts with the same digits (2 before 2k)
EpisodeOnlyForms == {"MM", "M", "MM.Mk"}

\* the season s and the episode e written in a form
Marker(form, s, e) ==
    LET S  == toString(s)
        E  == toString(e)
        SP == padStart2(toString(s))
        EP == padStart2(toString(e))
    IN  CASE form = "SxxEyy" -> "S" \o SP \o "E" \o EP
          [] form = "SxEy" -> "S" \o S \o "E" \o E
          [] form = "SxxEy" -> "S" \o SP \o "E" \o E
          [] form = "SxEyy" -> "S" \o S \o "E" \o EP
          [] form = "NxMM" -> S \o "x" \o EP
          [] form = "NxM" -> S \o "x" \o E
          [] form = "season N episode M" -> "season " \o S \o " episode " \o E
          [] form = "Season.NN.Episode.MM" ->
                "Season." \o SP \o ".Episode." \o EP
          [] form = "[SxxEyy]" -> "[S" \o SP \o "E" \o EP \o "]"
          [] form = ".sxx.eyy." -> ".s" \o SP \o ".e" \o EP \o "."
          [] form = "MM" -> EP
          [] form = "M" -> E
          [] form = "MM.Mk" -> EP \o "." \o E \o "k"

\* what comes before and after the marker
EpBefore == {"", "Show."}
EpAfter == {"", ".srt", "_en.srt", "0.srt"}

\* name holds the season s and the episode e in one of the forms
Named(name, s, e, forms) ==
    \E form \in forms, b \in EpBefore, a \in EpAfter :
        name = b \o Marker(form, s, e) \o a

InitEpisode ==
    /\ pc = "file"
    /\ season \in EpSeasons
    /\ episode \in EpEpisodes
    /\ \E s \in EpSeasons, e \in EpEpisodes :
          Named(filename, s, e,
                ListedForms \cup MixedForms \cup EpisodeOnlyForms)
    /\ imdbId = ""
    /\ result = <<>>
    /\ IdleNorm
    /\ IdleSim
    /\ IdleRank
    /\ IdleHandler

\* matcher.matchesEpisode(filename, season, episode)
MatchEpisode ==
    /\ pc = "file"
    /\ result' = matchesEpisode(filename, season, episode)
    /\ pc' = "matched"
    /\ UNCHANGED <<filename, imdbId, season, episode, normVars, simVars,
                 rankVars, handlerVars>>

NextEpisode == MatchEpisode

SpecEpisode == InitEpisode /\ [][NextEpisode]_vars

\* C6: a filename that holds the requested season and episode in
\* one of the listed forms is an exact match of score 1.0
C6_ListedFormIsExact ==
    (pc = "matched" /\ Named(filename, season, episode, ListedForms))
    => result = [score |-> ScoreUnit, method |-> "exact_episode"]

\* C7: a filename whose marker SxxEyy or NxMM names another season than the
\* requested one scores below 1.0
C7_OtherSeasonNotExact ==
    (/\ pc = "matched"
     /\ \E s \in EpSeasons \ {season}, e \in EpEpisodes :
           Named(filename, s, e, {"SxxEyy", "SxEy", "NxMM", "NxM"}))
    => result.score < ScoreUnit

\* the runs of one to three digits of a name that no word character
\* touches, each with the character after it
NumericRuns(name) ==
    {<<SubSeq(name, ij[1], ij[2]), Ch(name, ij[2] + 1)>> : ij \in
        {ij \in (1..Len(name)) \X (1..Len(name)) :
            /\ ij[2] - ij[1] + 1 \in 1..3
            /\ \A k \in ij[1]..ij[2] : Ch(name, k) \in Digits
            /\ Ch(name, ij[1] - 1) \notin WordChars
            /\ Ch(name, ij[2] + 1) \notin WordChars}}

\* C18: for season 1, when neither the exact nor the fuzzy tier matched, a
\* filename with a run of digits that is the requested episode, at most 50
\* and not followed by p or k, scores 0.7 with the method episode_only_s1,
\* whatever other numbers the filename has
C18_EpisodeOnly ==
    (/\ pc = "matched"
     /\ season = 1
     /\ result.method \notin {"exact_episode", "fuzzy_episode_exact",
                              "fuzzy_episode_close", "fuzzy_season_only"}
     /\ episode <= 50
     /\ \E run \in NumericRuns(toLowerCase(filename)) :
           digitsValue(run[1]) = episode /\ run[2] \notin {"p", "k"})
    => result = [score |-> Hundredths(70), method |-> "episode_only_s1"]

\* C24: the method is exact_episode only if the episode written in the
\* marker of the filename is the requested episode as a whole number: a
\* filename whose marker, followed by no further digit, names another
\* episode (21 for a request of 2) is no exact match
C24_WholeEpisodeNumber ==
    (/\ pc = "matched"
     /\ \E s \in EpSeasons, e \in EpEpisodes \ {episode} :
           \E form \in ListedForms \cup MixedForms, b \in EpBefore,
              a \in EpAfter \ {"0.srt"} :
               filename = b \o Marker(form, s, e) \o a)
    => result.method # "exact_episode"

(***************************************************************************)
(* SpecYear: extractYear on filenames that hold one or two runs of four    *)
(* digits, with and without a resolution marker near them.                 *)
(***************************************************************************)
\* the runs of four digits: below, inside and above the range 1920..2030,
\* above the years the pattern of extractYear matches, and a resolution
YearRuns == {"1919", "1925", "2020", "2030", "2031", "2045", "2160"}
\* what comes before and after the run
YearBefore == {"", "Movie.", "Movie.1999.", "720p.", "Movie.2035."}
YearAfter == {"", ".srt", ".1080p.srt", "p.srt",
              ".BluRay.x264.GROUP.720p.srt"}

InitYear ==
    /\ pc = "name"
    /\ \E b \in YearBefore, run \in YearRuns, a \in YearAfter :
          filename = b \o run \o a
    /\ imdbId = ""
    /\ season = 0
    /\ episode = 0
    /\ result = <<>>
    /\ IdleNorm
    /\ IdleSim
    /\ IdleRank
    /\ IdleHandler

\* matcher.extractYear(filename)
ExtractYear ==
    /\ pc = "name"
    /\ result' = extractYear(filename)
    /\ pc' = "year"
    /\ UNCHANGED <<filename, imdbId, season, episode, normVars, simVars,
                 rankVars, handlerVars>>

NextYear == ExtractYear

SpecYear == InitYear /\ [][NextYear]_vars

\* the places of a name where a run of exactly four digits starts that lies
\* in 1920..2030 and has no resolution marker (three or four digits and a
\* p) in the ten characters before it, itself and the sixteen after it
EligibleYears(name) ==
    {i \in 1..(Len(name) - 3) :
        /\ \A k \in i..(i + 3) : Ch(name, k) \in Digits
        /\ Ch(name, i - 1) \notin WordChars
        /\ Ch(name, i + 4) \notin WordChars
        /\ digitsValue(SubSeq(name, i, i + 3)) \in 1920..2030
        /\ ~Test(RCat(<<RRep(RSet(Digits), 3, 4), RLit("p")>>),
                 SubSeq(name, Max(1, i - 10), Min(Len(name), i + 19)), TRUE)}

\* C19: extractYear returns no year, or the first run of four digits of the
\* filename that lies in 1920..2030 and whose surrounding context holds no
\* resolution marker: never a run outside the range or one the context
\* check rejected
C19_FirstEligibleYear ==
    pc = "year" =>
        \/ result = ""
        \/ \E i \in EligibleYears(filename) :
              /\ result = SubSeq(filename, i, i + 3)
              /\ \A j \in EligibleYears(filename) : i <= j

(***************************************************************************)
(* SpecRank: findBestMatches on a list of files of a repository, for a     *)
(* movie with or without metadata and for a series with or without season  *)
(* and episode.                                                            *)
(***************************************************************************)
\* the longest list of files SpecRank draws
MaxFiles == 3

\* the requests: type, id and the metadata the handler found for a movie
RankRequests ==
    {[type |-> "movie", id |-> "tt1234567", title |-> "", year |-> ""],
     [type |-> "movie", id |-> "tt1234567", title |-> "Movie Title",
      year |-> "2020"],
     [type |-> "series", id |-> "tt0111161:1:2", title |-> "", year |-> ""],
     [type |-> "series", id |-> "tt0111161", title |-> "", year |-> ""],
     [type |-> "movie", id |-> "", title |-> "", year |-> ""],
     [type |-> "movie", id |-> "tt(1234567", title |-> "", year |-> ""],
     [type |-> "series", id |-> "tt0111161:x:2", title |-> "", year |-> ""]}

\* the ids among them that are no identifier: the empty one and the one
\* with a character that is no digit, and the one whose season is no number
MalformedIds == {"", "tt(1234567"}
MalformedEpisodes == {"tt0111161:x:2"}

\* the names of the files of the repository of a request
RankFiles(type, id) ==
    IF id \in MalformedIds \cup MalformedEpisodes
    THEN {"", "Show.S01E02.srt", "tt1234567.srt"}
    ELSE IF type = "movie"
    THEN {"tt1234567.srt", "Movie.Title.2020.tt1234567.srt",
          "Movie.Title.2020.1080p.YIFY.srt", "Unrelated.Film.2010.srt",
          "tt1234567_en.srt"}
    ELSE {"0111162.s01e02.srt", "111161.s01e02.srt", "10111161.1.2.srt",
          "Show.S01E02.srt", "tt0111161_en.srt"}
         \cup (IF id = "tt0111161:1:2"
               THEN {"tt0111161.s01e02.srt", "tt0111161.s01e01.srt"}
               ELSE {})

\* the handler's 0.3, the default 0.4, and two thresholds some files score
MinScores == {Hundredths(30), Hundredths(40), Hundredths(90), ScoreUnit}

\* the lists of up to n different elements of S
RECURSIVE ListsUpTo(_, _)
ListsUpTo(S, n) ==
    IF n = 0 THEN {<<>>}
    ELSE LET shorter == ListsUpTo(S, n - 1)
         IN  shorter \cup {Append(l, x) : l \in shorter, x \in S}

InitRank ==
    /\ pc = "request"
    /\ \E asked \in RankRequests :
          /\ contentType = asked.type
          /\ contentId = asked.id
          /\ metaTitle = asked.title
          /\ metaYear = asked.year
          /\ candidates \in {l \in ListsUpTo(RankFiles(asked.type, asked.id),
                                                    MaxFiles) :
                                \A i, j \in DOMAIN l : l[i] = l[j] => i = j}
    /\ minimum \in MinScores
    /\ finals = <<>>
    /\ ranked = <<>>
    /\ alone = <<>>
    /\ IdleNorm
    /\ IdleSim
    /\ IdleFile
    /\ IdleHandler

\* fuzzyMatcher.findBestMatches(files, type, id, targetTitle, targetYear,
\*                              minScore), called with the files of the
\* request and, for the same request, with each of the files alone
FindBestMatches ==
    /\ pc = "request"
    /\ IF thrownBy(candidates, contentType, contentId) # ""
       THEN /\ finals' = <<>>
            /\ ranked' = <<>>
            /\ alone' = <<>>
            /\ pc' = "thrown"
       ELSE /\ \E call \in
                  {[files \in {candidates}
                              \cup {<<candidates[i]>> : i \in DOMAIN candidates} |->
                       findBestMatches(files, contentType, contentId,
                                       metaTitle, metaYear, minimum)]} :
                  /\ finals' = call[candidates].logged
                  /\ ranked' \in call[candidates].returned
                  /\ alone' = [i \in DOMAIN candidates |->
                                 call[<<candidates[i]>>].logged[1]]
            /\ pc' = "ranked"
    /\ UNCHANGED <<candidates, contentType, contentId, metaTitle, metaYear,
                   minimum, normVars, simVars, fileVars,
                   handlerVars>>

NextRank == FindBestMatches

SpecRank == InitRank /\ [][NextRank]_vars

\* the file of index i is in the returned array
Ranked(i) == \E j \in DOMAIN ranked : ranked[j].file = i

\* C8: a file is in the returned array, with its final result, if and only
\* if its final score is at least minScore, and no file is in it twice
C8_ThresholdFilter ==
    pc = "ranked" =>
        /\ \A i \in DOMAIN candidates : Ranked(i) <=> finals[i].score >= minimum
        /\ \A j \in DOMAIN ranked :
              /\ ranked[j].file \in DOMAIN candidates
              /\ ranked[j].match = finals[ranked[j].file]
        /\ \A j, k \in DOMAIN ranked : ranked[j].file = ranked[k].file => j = k

\* C8, the case: a file that scores minScore exactly is returned and a file
\* that scores less, but not 0, is not
C8_Witness ==
    /\ pc = "ranked"
    /\ \E i \in DOMAIN candidates : finals[i].score = minimum /\ Ranked(i)
    /\ \E i \in DOMAIN candidates :
          finals[i].score > 0 /\ finals[i].score < minimum /\ ~Ranked(i)

\* C9: of two returned files whose scores differ by less than 0.01 the one
\* of the higher method priority comes first, and of two whose scores differ
\* by 0.01 or more the one of the higher score comes first
C9_RankedOrder ==
    pc = "ranked" =>
        \A j, k \in DOMAIN ranked :
            j < k =>
                LET a == ranked[j].match
                    b == ranked[k].match
                IN  IF a.score - b.score < Hundredths(1)
                       /\ b.score - a.score < Hundredths(1)
                    THEN methodPriority(a.method) >= methodPriority(b.method)
                    ELSE a.score > b.score

\* C10: for a movie, every file whose name matches the identifier directly
\* is returned with the score 1.0 and the method direct_imdb
C10_DirectIsRankedDirect ==
    (pc = "ranked" /\ contentType = "movie") =>
        \A i \in DOMAIN candidates :
            matchesImdbId(candidates[i], contentId).method = "direct_imdb"
            => \E j \in DOMAIN ranked :
                  /\ ranked[j].file = i
                  /\ ranked[j].match
                         = [score |-> ScoreUnit, method |-> "direct_imdb"]

\* C10, the case: metadata is present and the title strategy scores above
\* 0.5 too, so that the strategies are combined
C10_Witness ==
    /\ pc = "ranked"
    /\ contentType = "movie"
    /\ metaTitle # ""
    /\ \E j \in DOMAIN ranked :
          /\ ranked[j].match = [score |-> ScoreUnit, method |-> "direct_imdb"]
          /\ matchesByTitle(candidates[ranked[j].file], metaTitle, metaYear,
                            Hundredths(50)).score > Hundredths(50)

\* C14: for a movie without title and year, at the minimum scores 0.3 and
\* 0.4, a file is returned if and only if the identifier matcher gives it a
\* score of at least minScore, and it is returned with the result of the
\* identifier matcher; no file gets a result of the title matcher.
C14_IdentifierOnly ==
    (/\ pc = "ranked" /\ contentType = "movie"
     /\ metaTitle = "" /\ metaYear = ""
     /\ minimum \in {Hundredths(30), Hundredths(40)}) =>
        \A i \in DOMAIN candidates :
            \A idMatch \in {matchesImdbId(candidates[i], contentId)} :
                /\ Ranked(i) <=> idMatch.score >= minimum
                /\ \A j \in DOMAIN ranked :
                      ranked[j].file = i =>
                          /\ ranked[j].match.score = idMatch.score
                          /\ ranked[j].match.method = idMatch.method
                /\ finals[i].method \in {idMatch.method, "filename_analysis"}

\* C14, the case: a file the identifier matcher scores 0 has the result of
\* the filename analysis and is not returned, another file is returned
C14_Witness ==
    /\ pc = "ranked" /\ contentType = "movie"
    /\ metaTitle = "" /\ metaYear = ""
    /\ minimum \in {Hundredths(30), Hundredths(40)}
    /\ \E i \in DOMAIN candidates :
          /\ finals[i].method = "filename_analysis"
          /\ finals[i].score > 0
          /\ ~Ranked(i)
    /\ \E i \in DOMAIN candidates :
          Ranked(i) /\ finals[i].score < ScoreUnit

C12_Total ==
    /\ pc # "thrown"
    /\ pc = "ranked" =>
          \A i \in DOMAIN candidates :
              /\ contentId \in MalformedIds
                 => finals[i].method \notin
                        {"direct_imdb", "fuzzy_imdb_exact_length",
                         "imdb_substring", "imdb_partial",
                         "imdb_with_separator"}
              /\ contentId \in MalformedEpisodes
                 => finals[i].method \notin
                        {"exact_episode", "fuzzy_episode_exact",
                         "fuzzy_episode_close", "fuzzy_season_only",
                         "episode_only_s1", "season_pack", "series_combined",
                         "series_imdb_weighted"}

\* C23: for a series with season and episode, a file whose name holds the
\* identifier and the requested episode exactly comes before every returned
\* file whose name holds the identifier and another episode
\* (tt0111161.s01e02.srt before tt0111161.s01e01.srt for tt0111161:1:2)
C23_RequestedEpisodeFirst ==
    (pc = "ranked" /\ contentId = "tt0111161:1:2") =>
        \A j, k \in DOMAIN ranked :
            (/\ candidates[ranked[j].file] = "tt0111161.s01e02.srt"
             /\ candidates[ranked[k].file] = "tt0111161.s01e01.srt")
            => j < k

(***************************************************************************)
(* SpecSort: matches.sort of findBestMatches on an array of three results  *)
(* of the series branch, and on the same results in every other order.     *)
(***************************************************************************)
\* the number of results sorted
SortLen == 3

\* results of matchesEpisode and of matchesImdbId
EpisodeResults ==
    {[score |-> ScoreUnit, method |-> "exact_episode"],
     [score |-> Hundredths(95), method |-> "fuzzy_episode_exact"],
     [score |-> Hundredths(80), method |-> "fuzzy_episode_close"],
     [score |-> 0, method |-> "no_match"]}
ImdbResults ==
    {[score |-> ScoreUnit, method |-> "direct_imdb"],
     [score |-> Times(Ratio(6, 7), 90), method |-> "fuzzy_imdb_exact_length"],
     [score |-> Hundredths(85), method |-> "imdb_substring"],
     [score |-> Hundredths(75), method |-> "imdb_partial"],
     [score |-> 0, method |-> "no_imdb_match"]}

\* the final results of a file that pass the minimum score of the handler
SortResults ==
    {matchResult \in {seriesResult(episodeMatch, imdbMatch) :
                         episodeMatch \in EpisodeResults,
                         imdbMatch \in ImdbResults} :
        passesThreshold(matchResult.score, Hundredths(30))}

\* the array matches of the files with the results in this order
matchesOf(matchResults) ==
    [i \in DOMAIN matchResults |-> [file |-> i, match |-> matchResults[i]]]

InitSort ==
    /\ pc = "matches"
    /\ candidates \in {matchResults \in [1..SortLen -> SortResults] :
                          \A i, j \in 1..SortLen :
                              matchResults[i] = matchResults[j] => i = j}
    /\ contentType = "series"
    /\ contentId = ""
    /\ metaTitle = ""
    /\ metaYear = ""
    /\ minimum = Hundredths(30)
    /\ finals = <<>>
    /\ ranked = <<>>
    /\ alone = <<>>
    /\ IdleNorm
    /\ IdleSim
    /\ IdleFile
    /\ IdleHandler

\* matches.sort(comparefn) on the results in the order candidates: ranked
\* is the array it leaves and finals the results of that array in order;
\* alone holds the same for the results taken in every order
SortMatches ==
    /\ pc = "matches"
    /\ ranked' \in sortOutcomes(matchesOf(candidates))
    /\ finals' = [j \in DOMAIN ranked' |-> ranked'[j].match]
    /\ alone' = {[j \in DOMAIN sorted |-> sorted[j].match] :
                    sorted \in UNION {sortOutcomes(matchesOf(
                                          [i \in 1..SortLen |->
                                              candidates[order[i]]])) :
                                      order \in Permutations(1..SortLen)}}
    /\ pc' = "sorted"
    /\ UNCHANGED <<candidates, contentType, contentId, metaTitle, metaYear,
                   minimum, normVars, simVars, fileVars, handlerVars>>

NextSort == SortMatches

SpecSort == InitSort /\ [][NextSort]_vars

\* C26: the ranked order depends on the (score, method) pairs of the files
\* alone: three results, no two with the same score and method, come out
\* of the sort in the same order whatever order they went in
C26_OrderOfPairsAlone ==
    pc = "sorted" => \A sorted \in alone : sorted = finals

\* the function given to matches.sort is no consistent ordering of the
\* results sorted: it ranks a before b and b before c, or ties them, yet
\* c before a
Inconsistent ==
    \E a, b, c \in DOMAIN ranked :
        /\ comparefn(ranked[a], ranked[b]) <= 0
        /\ comparefn(ranked[b], ranked[c]) <= 0
        /\ comparefn(ranked[a], ranked[c]) > 0

(***************************************************************************)
(* SpecMovie: the loop of findBestMatches over the files of a repository   *)
(* for a movie, one file a step, and one request after the other.  The     *)
(* requests and the files come in a fixed order, so the specification has  *)
(* one behaviour, which tries every file for every request.                *)
(***************************************************************************)
\* the requests for a movie, with the metadata the handler found
MovieRequests ==
    <<[id |-> "tt1234567", title |-> "Movie Title", year |-> "2020"],
      [id |-> "tt1234567", title |-> "Movie Title", year |-> ""],
      [id |-> "tt1234567", title |-> "", year |-> ""],
      [id |-> "tt1234567", title |-> "Title", year |-> "2020"],
      [id |-> "tt7654321", title |-> "Movie Title", year |-> "2020"],
      [id |-> "tt1234567", title |-> "Movie", year |-> "2020"],
      [id |-> "tt123456", title |-> "Movie Title", year |-> "2020"]>>

\* the names of the files of the repository
MovieFiles ==
    <<"tt1234567.srt",
      "Movie.Title.2020.tt1234567.srt",
      "Movie.Title.2020.1080p.tt1234567.srt",
      "Movie.Title.2020.1080p.BluRay.srt",
      "Movie.Title.2020.srt",
      "Movie.Title.srt",
      "Movie.Title.720p.srt",
      "movie title 2020 720p.srt",
      "Movie.Title.2020.1080p.1234567.srt",
      "Movie.Title.2020.1080p.123456.srt",
      "Movie.Title.2020.4k.tt1234567_en.srt",
      "Title.2020.1080p.tt1234567.srt",
      "Movie.2020.1080p.tt1234567.srt",
      "Movie.Title.2020.sample.srt",
      "Movie.Title.2019.1080p.srt",
      "Unrelated.Film.2010.srt",
      "1234567.srt",
      "2020.1080p.srt",
      "",
      "Movie Title (2020) [1080p] tt1234567.srt",
      "Movie.Title.trailer.srt",
      "Other.Title.2005.srt">>

\* the array strategies of the branch type === 'movie' for one file
movieStrategies(name, id, targetTitle, targetYear) ==
    strategiesOf(matchesImdbId(name, id),
                 IF targetTitle = "" THEN NoMatch
                 ELSE matchesByTitle(name, targetTitle, targetYear,
                                     Hundredths(50)),
                 analyzeFilename(name, targetTitle, targetYear),
                 targetTitle)

InitMovie ==
    /\ pc = "movies"
    /\ candidates = MovieFiles
    /\ contentType = "movie"
    /\ contentId = MovieRequests[1].id
    /\ metaTitle = MovieRequests[1].title
    /\ metaYear = MovieRequests[1].year
    /\ minimum = Hundredths(30)
    /\ finals = <<>>
    /\ ranked = <<>>
    /\ alone = <<>>
    /\ IdleNorm
    /\ IdleSim
    /\ IdleFile
    /\ IdleHandler

\* one turn of the loop over files: finals takes matchResult of the
\* file and alone its strategies; ranked is the array matches of this call
\* after those of the calls before it, each element with the strategies of
\* its file
MatchMovie ==
    /\ pc = "movies"
    /\ Len(finals) < Len(candidates)
    /\ \E turn \in {[name \in {candidates[Len(finals) + 1]} |->
                      [matchResult |-> movieMatch(name, contentId,
                                                  metaTitle, metaYear),
                       strategies |-> movieStrategies(name, contentId,
                                                      metaTitle, metaYear)]]} :
          \E pushed \in {turn[candidates[Len(finals) + 1]]} :
              /\ finals' = Append(finals, pushed.matchResult)
              /\ alone' = Append(alone, pushed.strategies)
              /\ ranked' = IF pushed.matchResult.score >= minimum
                           THEN Append(ranked, pushed)
                           ELSE ranked
    /\ UNCHANGED <<pc, candidates, contentType, contentId, metaTitle,
                   metaYear, minimum, normVars, simVars, fileVars,
                   handlerVars>>

\* the loop is over and findBestMatches returns; it is called for the next
\* request, if there is one
ReturnMatches ==
    /\ pc = "movies"
    /\ Len(finals) = Len(candidates)
    /\ \E r \in DOMAIN MovieRequests :
          /\ MovieRequests[r] = [id |-> contentId, title |-> metaTitle,
                                 year |-> metaYear]
          /\ IF r < Len(MovieRequests)
             THEN /\ contentId' = MovieRequests[r + 1].id
                  /\ metaTitle' = MovieRequests[r + 1].title
                  /\ metaYear' = MovieRequests[r + 1].year
                  /\ finals' = <<>>
                  /\ alone' = <<>>
                  /\ pc' = "movies"
             ELSE /\ pc' = "returned"
                  /\ UNCHANGED <<contentId, metaTitle, metaYear, finals,
                                 alone>>
    /\ UNCHANGED <<candidates, contentType, minimum, ranked, normVars,
                   simVars, fileVars, handlerVars>>

NextMovie == MatchMovie \/ ReturnMatches

SpecMovie == InitMovie /\ [][NextMovie]_vars

\* more than one of the strategies scores above 0.5
SeveralGood(strategies) ==
    Cardinality({n \in DOMAIN strategies :
                    strategies[n].score > Hundredths(50)}) > 1

\* the weighted average of the strategies exceeds the score of each of them
AverageExceeds(strategies) ==
    \A n \in DOMAIN strategies :
        combinedScore(strategies) > strategies[n].score

\* C20: the outcome multi_strategy is attainable for movies: some request
\* and file have more than one strategy scoring above 0.5 and a weighted
\* average of all strategies above the score of the best one, and
\* findBestMatches returns that file with the average and the method
\* multi_strategy.  SpecMovie tries every request with every file, so such
\* a file is among those returned when the last call has returned
C20_MultiStrategyAttainable ==
    pc = "returned" =>
        \E k \in DOMAIN ranked :
            /\ SeveralGood(ranked[k].strategies)
            /\ AverageExceeds(ranked[k].strategies)
            /\ ranked[k].matchResult
                   = [score |-> combinedScore(ranked[k].strategies),
                      method |-> "multi_strategy"]

\* what holds instead: whatever the strategies of a file score, their
\* weighted average does not exceed the best of them, and no result is
\* multi_strategy
NeverMultiStrategy ==
    \A k \in DOMAIN finals :
        /\ ~AverageExceeds(alone[k])
        /\ finals[k].method # "multi_strategy"

\* files with three strategies above 0.5 are among those returned
SeveralGoodTried ==
    \E k \in DOMAIN ranked :
        /\ Len(ranked[k].strategies) = 3
        /\ \A n \in 1..3 : ranked[k].strategies[n].score > Hundredths(50)

\* the methods of a result that matched nothing
NegativeMethods ==
    {"below_threshold", "no_title", "no_match", "no_imdb_match", "none"}

\* C25: every file findBestMatches returns has the method of a match: with
\* the minimum score 0.3 (and so with every higher one) no returned file
\* has the method below_threshold, no_title, no_match, no_imdb_match or
\* none
C25_PositiveMethod ==
    \A k \in DOMAIN ranked :
        pc \in {"movies", "returned"}
        => ranked[k].matchResult.method \notin NegativeMethods

(***************************************************************************)
(* SpecSeries: the loop of findBestMatches over the files of a repository  *)
(* for an episode of a series, one file a step, and one request after the  *)
(* other, in a fixed order as in SpecMovie.                                *)
(***************************************************************************)
\* the requests for an episode: identifier, season and episode
SeriesRequests ==
    <<"tt0111161:1:2", "tt0111161:1:1", "tt0111161:2:10", "tt0111161:1:10",
      "tt0903747:1:2", "tt111161:1:2">>

\* the names of the files of the repository
SeriesFiles ==
    <<"tt0111161.s01e02.srt",
      "tt0111161.s01e01.srt",
      "tt0903747.s01e02.srt",
      "tt0903747.s01e01.srt",
      "111161.s01e02.srt",
      "0111162.s01e02.srt",
      "10111161.1.2.srt",
      "Show.S01E02.srt",
      "Show.S1E10.srt",
      "Show.S02E10.srt",
      "tt0111161_en.srt",
      "tt0111161.Season.1.srt",
      "Show.Season.1.Complete.srt",
      "tt0111161.1.3.srt",
      "tt0111161.1.5.srt",
      "Show.1.5.srt",
      "Show.02.srt",
      "tt0111161.02.srt",
      "tt0111161.2x10.srt",
      "">>

\* episodeMatch and imdbMatch of the branch season && episode for one file
seriesStrategies(name, id) ==
    [episodeMatch |-> matchesEpisode(name, parseInt(split(id, ":")[2]),
                                     parseInt(split(id, ":")[3])),
     imdbMatch |-> matchesImdbId(name, split(id, ":")[1])]

InitSeries ==
    /\ pc = "episodes"
    /\ candidates = SeriesFiles
    /\ contentType = "series"
    /\ contentId = SeriesRequests[1]
    /\ metaTitle = ""
    /\ metaYear = ""
    /\ minimum = Hundredths(30)
    /\ finals = <<>>
    /\ ranked = <<>>
    /\ alone = <<>>
    /\ IdleNorm
    /\ IdleSim
    /\ IdleFile
    /\ IdleHandler

\* one turn of the loop over files: finals takes matchResult of the file
\* and alone the results of its two matchers; ranked is the array matches
\* of this call after those of the calls before it, each element with the
\* results of the matchers of its file
MatchSeries ==
    /\ pc = "episodes"
    /\ Len(finals) < Len(candidates)
    /\ \E turn \in {[name \in {candidates[Len(finals) + 1]} |->
                      [matchResult |-> seriesMatch(name, contentId),
                       strategies |-> seriesStrategies(name, contentId)]]} :
          \E pushed \in {turn[candidates[Len(finals) + 1]]} :
              /\ finals' = Append(finals, pushed.matchResult)
              /\ alone' = Append(alone, pushed.strategies)
              /\ ranked' = IF pushed.matchResult.score >= minimum
                           THEN Append(ranked, pushed)
                           ELSE ranked
    /\ UNCHANGED <<pc, candidates, contentType, contentId, metaTitle,
                   metaYear, minimum, normVars, simVars, fileVars,
                   handlerVars>>

\* the loop is over and findBestMatches returns; it is called for the next
\* request, if there is one
ReturnSeries ==
    /\ pc = "episodes"
    /\ Len(finals) = Len(candidates)
    /\ \E r \in DOMAIN SeriesRequests :
          /\ SeriesRequests[r] = contentId
          /\ IF r < Len(SeriesRequests)
             THEN /\ contentId' = SeriesRequests[r + 1]
                  /\ finals' = <<>>
                  /\ alone' = <<>>
                  /\ pc' = "episodes"
             ELSE /\ pc' = "returned"
                  /\ UNCHANGED <<contentId, finals, alone>>
    /\ UNCHANGED <<candidates, contentType, metaTitle, metaYear, minimum,
                   ranked, normVars, simVars, fileVars, handlerVars>>

NextSeries == MatchSeries \/ ReturnSeries

SpecSeries == InitSeries /\ [][NextSeries]_vars

\* C21: the outcome series_imdb_weighted is attainable: some request with
\* season and episode and some file have an identifier score above 0.7 and
\* an episode score above 0.2, and findBestMatches returns that file with
\* 0.6 x identifier + 0.4 x episode and the method series_imdb_weighted.
\* SpecSeries tries every request with every file, so such a file is among
\* those returned when the last call has returned
C21_ImdbWeightedAttainable ==
    pc = "returned" =>
        \E k \in DOMAIN ranked :
            /\ ranked[k].strategies.imdbMatch.score > Hundredths(70)
            /\ ranked[k].strategies.episodeMatch.score > Hundredths(20)
            /\ ranked[k].matchResult
                   = [score |-> Times(ranked[k].strategies.imdbMatch.score, 60)
                                + Times(ranked[k].strategies.episodeMatch.score,
                                        40),
                      method |-> "series_imdb_weighted"]

\* what holds instead: a file with an identifier score above 0.7 and an
\* episode score above 0.2 is series_combined, and no result is
\* series_imdb_weighted
NeverImdbWeighted ==
    \A k \in DOMAIN finals :
        /\ finals[k].method # "series_imdb_weighted"
        /\ (/\ alone[k].imdbMatch.score > Hundredths(70)
            /\ alone[k].episodeMatch.score > Hundredths(20))
           => finals[k].method = "series_combined"

\* files with an identifier score above 0.7 and an episode score above 0.2
\* and at most 0.6 are among those returned
WeakEpisodeTried ==
    \E k \in DOMAIN ranked :
        /\ ranked[k].strategies.imdbMatch.score > Hundredths(70)
        /\ ranked[k].strategies.episodeMatch.score > Hundredths(20)
        /\ ranked[k].strategies.episodeMatch.score <= Hundredths(60)

\* the result of the identifier matcher for a file without the identifier
NoImdbMatch == [score |-> 0, method |-> "no_imdb_match"]

\* C27: in a request with season and episode, the identifier never lowers
\* the score of a file: when the identifier matcher scores above 0, the
\* final score is at least the final score of the same result of the
\* episode matcher with an identifier score of 0
C27_IdentifierNeverLowers ==
    \A k \in DOMAIN finals :
        (pc = "episodes" /\ alone[k].imdbMatch.score > 0)
        => finals[k].score
               >= seriesResult(alone[k].episodeMatch, NoImdbMatch).score

(***************************************************************************)
(* SpecHandler: the addon handles one subtitles request after the other.   *)
(* A request is handled in steps, one for each stretch of                  *)
(* handleSubtitlesRequest between two awaits; GitHub answers the listing   *)
(* with any of GitHubAnswers and the metadata provider answers what omdb   *)
(* holds, which changes at any time.  movieCache lives as long as the      *)
(* module and is never reset.                                              *)
(***************************************************************************)
RepoConfig  == [present |-> TRUE, github_repo |-> "o/r", github_path |-> ""]
EmptyConfig == [present |-> TRUE, github_repo |-> "", github_path |-> ""]
NoExtra     == [present |-> FALSE, config |-> NoConfig]
ExtraConfig == [present |-> TRUE, config |-> RepoConfig]

HandlerRequests ==
    {[type |-> "movie", id |-> "tt1234567", config |-> RepoConfig, extra |-> NoExtra],
     [type |-> "movie", id |-> "tt1234567", config |-> NoConfig, extra |-> ExtraConfig],
     [type |-> "movie", id |-> "tt1234567", config |-> EmptyConfig, extra |-> ExtraConfig],
     [type |-> "movie", id |-> "tt1234567", config |-> NoConfig, extra |-> NoExtra],
     [type |-> "movie", id |-> undefined, config |-> RepoConfig, extra |-> NoExtra],
     [type |-> "series", id |-> "tt0111161:1:2", config |-> RepoConfig, extra |-> NoExtra],
     [type |-> "series", id |-> undefined, config |-> RepoConfig, extra |-> NoExtra],
     [type |-> "channel", id |-> "tt1234567", config |-> RepoConfig, extra |-> NoExtra]}

FileItem(name, path) == [type |-> "file", name |-> name, path |-> path]
DirItem(name, listing) == [type |-> "dir", name |-> name, path |-> name, listing |-> listing]
Listing(data) == [status |-> "ok", isArray |-> TRUE, data |-> data]

GitHubAnswers ==
    {[status |-> "error"],
     [status |-> "throws"],
     [status |-> "ok", isArray |-> FALSE],
     Listing(<<>>),
     Listing(<<FileItem("README.md", "README.md")>>),
     Listing(<<FileItem("Movie.Title.2020.srt", "Movie.Title.2020.srt"),
               FileItem("README.md", "README.md"),
               DirItem("tv", Listing(<<FileItem("tt0111161.s01e02.srt",
                                                "tv/tt0111161.s01e02.srt")>>))>>),
     Listing(<<FileItem("tt1234567.en.srt", "tt1234567.en.srt"),
               DirItem("tv", [status |-> "error"])>>),
     Listing(<<FileItem("Show.1.3.srt", "Show.1.3.srt"),
               FileItem("0111162.1.3.srt", "0111162.1.3.srt")>>)}

ProviderAnswers == {"True", "False", "unreachable"}

NoAnswer == [status |-> "none"]
NoLookup == [source |-> "none", info |-> NoInfo, provider |-> ""]
NoReply  == [settled |-> "pending", subtitles |-> <<>>]

\* the variables of SpecRank the handler leaves alone: all but ranked
engineVars == <<candidates, contentType, contentId, metaTitle, metaYear,
                minimum, finals, alone>>

InitHandler ==
    /\ pc = "handler"
    /\ movieCache = <<>>
    /\ omdb \in ProviderAnswers
    /\ request = <<>>
    /\ stage = "idle"
    /\ fetched = NoAnswer
    /\ lookup = NoLookup
    /\ reply = NoReply
    /\ coldReplies = {}
    /\ IdleNorm
    /\ IdleSim
    /\ IdleFile
    /\ IdleRank

\* handleSubtitlesRequest(args) up to its first await
HandleRequest ==
    /\ stage \in {"idle", "settled"}
    /\ \E args \in HandlerRequests :
          /\ request' = args
          /\ IF configOf(args).github_repo = ""
             THEN /\ reply' = [settled |-> "fulfilled", subtitles |-> <<>>]
                  /\ coldReplies' = {reply'}
                  /\ stage' = "settled"
             ELSE /\ reply' = NoReply
                  /\ coldReplies' = {}
                  /\ stage' = "listing"
    /\ fetched' = NoAnswer
    /\ lookup' = NoLookup
    /\ ranked' = <<>>
    /\ UNCHANGED <<pc, movieCache, omdb, normVars, simVars, fileVars,
                   engineVars>>

\* fetchGitHubFiles has resolved: the handler goes on to the await of
\* getMovieInfo, which returns what movieCache has or asks the provider;
\* ranked is the array findBestMatches returned to the handler
FilesListed ==
    /\ stage = "listing"
    /\ \E answer \in GitHubAnswers :
          /\ fetched' = answer
          /\ \E files \in {fetchGitHubFiles(answer)} :
                IF files = <<>>
                THEN /\ reply' = [settled |-> "fulfilled", subtitles |-> <<>>]
                     /\ coldReplies' = {reply'}
                     /\ stage' = "settled"
                     /\ lookup' = NoLookup
                     /\ ranked' = <<>>
                ELSE IF request.type = "movie" /\ request.id \notin DOMAIN movieCache
                THEN /\ reply' = NoReply
                     /\ coldReplies' = {}
                     /\ stage' = "metadata"
                     /\ lookup' = NoLookup
                     /\ ranked' = <<>>
                ELSE /\ lookup' = IF request.type = "movie"
                                  THEN [source |-> "cache",
                                        info |-> movieCache[request.id],
                                        provider |-> omdb]
                                  ELSE [NoLookup EXCEPT !.provider = omdb]
                     /\ \E handlings \in
                            {[info \in {lookup'.info,
                                        IF request.type = "movie"
                                        THEN movieInfoOf(omdb) ELSE NoInfo} |->
                                 handlingsOf(configOf(request), files,
                                             request.type, request.id, info)]} :
                           /\ \E handling \in handlings[lookup'.info] :
                                 /\ reply' = handling.response
                                 /\ ranked' = handling.matches
                           /\ coldReplies' =
                                 {handling.response : handling \in
                                     handlings[IF request.type = "movie"
                                               THEN movieInfoOf(omdb)
                                               ELSE NoInfo]}
                     /\ stage' = "settled"
    /\ UNCHANGED <<pc, movieCache, omdb, request, normVars, simVars, fileVars,
                   engineVars>>

\* the provider has answered getMovieInfo, or the fetch has failed
MetadataAnswered ==
    /\ stage = "metadata"
    /\ movieCache' = cachedAfter(movieCache, request.id, omdb)
    /\ lookup' = [source |-> "provider", info |-> movieInfoOf(omdb),
                  provider |-> omdb]
    /\ \E handlings \in {handlingsOf(configOf(request), files, request.type,
                                     request.id, movieInfoOf(omdb)) :
                            files \in {fetchGitHubFiles(fetched)}} :
          /\ \E handling \in handlings :
                /\ reply' = handling.response
                /\ ranked' = handling.matches
          /\ coldReplies' = {handling.response : handling \in handlings}
    /\ stage' = "settled"
    /\ UNCHANGED <<pc, omdb, request, fetched, normVars, simVars, fileVars,
                   engineVars>>

\* the provider changes what it answers (a title is added, the limit of
\* requests is reached, the network fails)
ProviderChanges ==
    /\ omdb' \in ProviderAnswers \ {omdb}
    /\ UNCHANGED <<pc, movieCache, request, stage, fetched, lookup, reply,
                   coldReplies, ranked, normVars, simVars, fileVars,
                   engineVars>>

NextHandler == HandleRequest \/ FilesListed \/ MetadataAnswered \/ ProviderChanges

SpecHandler == InitHandler /\ [][NextHandler]_vars

\* the files the handler of the request at hand got from the listing
listed == fetchGitHubFiles(fetched)

\* C11: the promise of the handler is fulfilled with a list of subtitles,
\* never rejected; the list is empty when no repository is configured,
\* when the listing failed or has no subtitle file, and when the engine
\* throws; when the provider cannot be reached, the engine is given no
\* title and no year.
C11_FailSoft ==
    stage = "settled" =>
        /\ reply.settled = "fulfilled"
        /\ configOf(request).github_repo = "" => reply.subtitles = <<>>
        /\ configOf(request).github_repo # ""
           => \A files \in {listed} :
              /\ (fetched.status # "ok" => reply.subtitles = <<>>)
              /\ (files = <<>> => reply.subtitles = <<>>)
              /\ (thrownBy(files, request.type, request.id) # ""
                  => reply.subtitles = <<>>)
              /\ (lookup.source = "provider" /\ lookup.provider = "unreachable"
                  => lookup.info.title = "" /\ lookup.info.year = "")

\* the provider was unreachable and the request got a subtitle all the same
C11_Witness ==
    /\ stage = "settled"
    /\ lookup.source = "provider"
    /\ lookup.provider = "unreachable"
    /\ reply.settled = "fulfilled"
    /\ reply.subtitles # <<>>

\* C13: the response to a request is one a process that has handled no
\* request before gives to the same request, GitHub and the provider
\* answering as they do during the request: nothing an earlier request left
\* in movieCache changes it.
C13_Stateless == stage = "settled" => reply \in coldReplies

\* C22: the list of subtitles of the response has one entry for each
\* element of the array findBestMatches returned, in the order of that
\* array
C22_EngineOrder ==
    stage = "settled" =>
        /\ Len(reply.subtitles) = Len(ranked)
        /\ \A j \in DOMAIN ranked :
              reply.subtitles[j].filename = listed[ranked[j].file].name

-----------------------------------------------------------------------------
(***************************************************************************)
(* SpecLookup: getMovieInfo called by concurrent subtitle requests.        *)
(* getMovieInfo is an async function: a call runs from its start to the    *)
(* await of fetch (line 25) in one step, and from the answer of the        *)
(* provider to its return in another; calls of other requests, addMovie    *)
(* and clearCache run in between.  Every call is for the same identifier.  *)
(*   stage[c]    the position of the call of caller c                      *)
(*   lookup[c]   where its value came from, and the value it returned      *)
(*   reply       the values calls got from definitive provider answers     *)
(*               since addMovie or clearCache last changed the entry       *)
(*   request[c]  reply at the time the call of c started                   *)
(*   coldReplies the pairs of callers whose calls at hand overlap in time  *)
(***************************************************************************)
Callers == {1, 2, 3}
LookupId == "tt1234567"
AddedMovies == {[exists |-> TRUE, title |-> "Added Title", year |-> "1999"]}

InitLookup ==
    /\ pc = "lookups"
    /\ movieCache = <<>>
    /\ omdb \in ProviderAnswers
    /\ stage = [c \in Callers |-> "idle"]
    /\ lookup = [c \in Callers |-> NoLookup]
    /\ request = [c \in Callers |-> {}]
    /\ reply = {}
    /\ coldReplies = {}
    /\ fetched = NoAnswer
    /\ IdleNorm
    /\ IdleSim
    /\ IdleFile
    /\ IdleRank

\* the pairs of overlapping calls, once caller c starts a call anew
overlapsWithout(c) == {pair \in coldReplies : c \notin pair}

\* getMovieInfo(LookupId) from its start to its first await: the cached
\* value is returned at once, otherwise a request goes to the provider
CallGetMovieInfo(c) ==
    /\ pc = "lookups"
    /\ stage[c] \in {"idle", "returned"}
    /\ request' = [request EXCEPT ![c] = reply]
    /\ IF LookupId \in DOMAIN movieCache
       THEN /\ lookup' = [lookup EXCEPT ![c] =
                   [source |-> "cache", info |-> movieCache[LookupId],
                    provider |-> ""]]
            /\ stage' = [stage EXCEPT ![c] = "returned"]
            /\ coldReplies' = overlapsWithout(c)
       ELSE /\ lookup' = [lookup EXCEPT ![c] =
                   [source |-> "provider", info |-> NoInfo, provider |-> ""]]
            /\ stage' = [stage EXCEPT ![c] = "awaiting"]
            /\ coldReplies' = overlapsWithout(c)
                   \cup {{c, d} : d \in {e \in Callers \ {c} :
                                            stage[e] = "awaiting"}}
    /\ UNCHANGED <<pc, movieCache, omdb, reply, fetched, ranked, normVars,
                   simVars, fileVars, engineVars>>

\* the provider answers the request of caller c, or the fetch fails: the
\* rest of getMovieInfo, from the await to the return
FetchAnswered(c) ==
    /\ pc = "lookups"
    /\ stage[c] = "awaiting"
    /\ movieCache' = cachedAfter(movieCache, LookupId, omdb)
    /\ lookup' = [lookup EXCEPT ![c] =
           [source |-> "provider", info |-> movieInfoOf(omdb),
            provider |-> omdb]]
    /\ stage' = [stage EXCEPT ![c] = "returned"]
    /\ reply' = IF omdb = "unreachable" THEN reply
                ELSE reply \cup {movieInfoOf(omdb)}
    /\ UNCHANGED <<pc, omdb, request, coldReplies, fetched, ranked, normVars,
                   simVars, fileVars, engineVars>>

\* addMovie(LookupId, movieData)
AddMovie ==
    /\ pc = "lookups"
    /\ \E movieData \in AddedMovies :
          movieCache' = [k \in DOMAIN movieCache \cup {LookupId} |->
                            IF k = LookupId THEN movieData ELSE movieCache[k]]
    /\ reply' = {}
    /\ UNCHANGED <<pc, omdb, request, stage, lookup, coldReplies, fetched,
                   ranked, normVars, simVars, fileVars, engineVars>>

\* clearCache()
ClearCache ==
    /\ pc = "lookups"
    /\ movieCache' = <<>>
    /\ reply' = {}
    /\ UNCHANGED <<pc, omdb, request, stage, lookup, coldReplies, fetched,
                   ranked, normVars, simVars, fileVars, engineVars>>

NextLookup ==
    \/ \E c \in Callers : CallGetMovieInfo(c)
    \/ \E c \in Callers : FetchAnswered(c)
    \/ AddMovie
    \/ ClearCache
    \/ (pc = "lookups" /\ ProviderChanges)

SpecLookup == InitLookup /\ [][NextLookup]_vars

\* C28: of two calls of getMovieInfo for the same uncached identifier that
\* overlap in time at most one sends a request to the provider, and both
\* return the same value.
C28_OneRequestInFlight ==
    pc = "lookups" =>
        \A c \in Callers, d \in Callers :
            {c, d} \in coldReplies /\ c # d =>
                /\ ~(lookup[c].source = "provider"
                     /\ lookup[d].source = "provider")
                /\ (stage[c] = "returned" /\ stage[d] = "returned"
                    => lookup[c].info = lookup[d].info)

\* two overlapping calls have returned, each with the answer to a request
\* of its own, and the values differ
TwoAnswers ==
    /\ pc = "lookups"
    /\ \E c \in Callers, d \in Callers :
          /\ {c, d} \in coldReplies
          /\ stage[c] = "returned" /\ stage[d] = "returned"
          /\ lookup[c].info # lookup[d].info
          /\ lookup[c].provider \in {"True", "False"}
          /\ lookup[d].provider \in {"True", "False"}

\* C29: a call of getMovieInfo that starts after a call has returned the
\* definitive answer of the provider (found, or not found), with no
\* addMovie and no clearCache since, returns that value and sends no
\* request to the provider.
C29_CachePolicy ==
    pc = "lookups" =>
        \A c \in Callers :
            stage[c] # "idle" =>
                \A answered \in request[c] :
                    /\ lookup[c].source = "cache"
                    /\ (stage[c] = "returned" => lookup[c].info = answered)

\* C29, its last part: a call whose fetch failed stores nothing: the cache
\* is after the call as it was before
ErrorStoresNothing ==
    [][\A c \in Callers :
          FetchAnswered(c) /\ omdb = "unreachable"
              => movieCache' = movieCache]_vars

\* C29, without overlapping calls: the calls that start when the calls
\* since the last change of the entry got one definitive answer only
SequentialPolicy ==
    pc = "lookups" =>
        \A c \in Callers :
            stage[c] # "idle" /\ Cardinality(request[c]) = 1 =>
                \A answered \in request[c] :
                    /\ lookup[c].source = "cache"
                    /\ (stage[c] = "returned" => lookup[c].info = answered)

\* a call returned the value an earlier call had got from the provider
ServedFromCache ==
    /\ pc = "lookups"
    /\ \E c \in Callers :
          /\ stage[c] = "returned"
          /\ lookup[c].source = "cache"
          /\ request[c] = {lookup[c].info}

-----------------------------------------------------------------------------
(***************************************************************************)
(* SpecFetch: fetchGitHubFiles(repo) on a repository whose directory tree  *)
(* is finite.  The tree is what GitHub answers for the root path, the item *)
(* of a directory carrying the answer for the path of that directory.      *)
(*   fetched   the answer of GitHub for the root path                      *)
(*   reply     the array fetchGitHubFiles returned                         *)
(***************************************************************************)
MaxItems == 2

NestedDir(name, path, listing) ==
    [type |-> "dir", name |-> name, path |-> path, listing |-> listing]

TreeItems ==
    {FileItem("Movie.Title.2020.srt", "Movie.Title.2020.srt"),
     FileItem("Show.S01E02.VTT", "Show.S01E02.VTT"),
     FileItem("movie.Ass", "movie.Ass"),
     FileItem("README.md", "README.md"),
     FileItem("notes.srt.txt", "notes.srt.txt"),
     FileItem("srt", "srt"),
     [type |-> "symlink", name |-> "link.srt", path |-> "link.srt"],
     DirItem("tv", Listing(<<FileItem("tt0111161.s01e02.srt",
                                      "tv/tt0111161.s01e02.srt"),
                             FileItem("cover.jpg", "tv/cover.jpg")>>)),
     DirItem("broken", [status |-> "error"]),
     DirItem("gone", [status |-> "throws"]),
     DirItem("odd", [status |-> "ok", isArray |-> FALSE]),
     DirItem("empty", Listing(<<>>)),
     DirItem("shows",
         Listing(<<FileItem("a.sub", "shows/a.sub"),
                   NestedDir("s1", "shows/s1", [status |-> "error"]),
                   NestedDir("s2", "shows/s2",
                       Listing(<<FileItem("b.SSA", "shows/s2/b.SSA"),
                                 NestedDir("x", "shows/s2/x",
                                           [status |-> "throws"])>>))>>))}

\* the listings of a root directory of at most MaxItems entries, no two of
\* the same name, and the answers that are no listing
Trees ==
    {[status |-> "error"], [status |-> "throws"],
     [status |-> "ok", isArray |-> FALSE]}
    \cup {Listing(data) :
            data \in {items \in UNION {[1..n -> TreeItems] : n \in 0..MaxItems} :
                        \A i \in DOMAIN items, j \in DOMAIN items :
                            items[i].name = items[j].name => i = j}}

InitFetch ==
    /\ pc = "listing"
    /\ fetched \in Trees
    /\ reply = <<>>
    /\ movieCache = <<>> /\ omdb = "" /\ request = <<>> /\ stage = ""
    /\ lookup = <<>> /\ coldReplies = {}
    /\ IdleNorm
    /\ IdleSim
    /\ IdleFile
    /\ IdleRank

\* const files = await fetchGitHubFiles(repo)
FetchFiles ==
    /\ pc = "listing"
    /\ reply' = fetchGitHubFiles(fetched)
    /\ pc' = "fetched"
    /\ UNCHANGED <<movieCache, omdb, request, stage, fetched, lookup,
                   coldReplies, normVars, simVars, fileVars, rankVars>>

NextFetch == FetchFiles

SpecFetch == InitFetch /\ [][NextFetch]_vars

\* the name ends with a dot and one of the five extensions, in any case
hasSubtitleExtension(name) ==
    \E extension \in {"srt", "vtt", "ass", "ssa", "sub"} :
        /\ Len(name) > Len(extension)
        /\ toLowerCase(SubSeq(name, Len(name) - Len(extension), Len(name)))
              = "." \o extension

\* the paths of the subtitle files in the directories whose listing
\* succeeded, as did the listings of their ancestors
RECURSIVE subtitlePathsOf(_)
subtitlePathsOf(answer) ==
    IF answer.status # "ok" THEN {}
    ELSE IF ~answer.isArray THEN {}
    ELSE UNION {IF item.type = "file"
                THEN (IF hasSubtitleExtension(item.name)
                      THEN {item.path} ELSE {})
                ELSE IF item.type = "dir"
                THEN subtitlePathsOf(item.listing)
                ELSE {} : item \in Range(answer.data)}

\* C30: fetchGitHubFiles returns an array (it terminates, and no error
\* reaches the caller) that holds exactly once each subtitle file of the
\* directories whose listing succeeded and whose ancestors' listings
\* succeeded, and no other file: a failed listing of a nested directory
\* takes the subtree of that directory out of the result, nothing else.
C30_FailedSubtreeOnly ==
    pc = "fetched" =>
        /\ DOMAIN reply = 1..Len(reply)
        /\ {file.path : file \in Range(reply)} = subtitlePathsOf(fetched)
        /\ \A i \in DOMAIN reply, j \in DOMAIN reply :
              reply[i].path = reply[j].path => i = j

\* the listing of a directory two levels down failed, as did the listing
\* of a directory next to its parent, and the files of the directories
\* around them are returned, one of them with an upper-case extension
C30_Witness ==
    /\ pc = "fetched"
    /\ fetched.status = "ok" /\ fetched.isArray
    /\ \E item \in Range(fetched.data) :
          /\ item.type = "dir"
          /\ item.listing.status = "error"
    /\ \E item \in Range(fetched.data) :
          /\ item.type = "dir"
          /\ item.listing.status = "ok" /\ item.listing.isArray
          /\ \E inner \in Range(item.listing.data) :
                inner.type = "dir" /\ inner.listing.status = "error"
    /\ {file.path : file \in Range(reply)} = {"shows/a.sub", "shows/s2/b.SSA"}

=============================================================================
